---- MODULE Spec2Model ----
(***************************************************************************)
(* Soul-Bot trading dashboard server: the process-wide trading session     *)
(* (web/server: socket handlers start_trading / stop_trading /             *)
(* connect_wallet / disconnect_wallet / disconnect, the trade-generation   *)
(* interval, the portfolio ledger with its profit lock, and the per-wallet *)
(* state files).                                                           *)
(*                                                                         *)
(* Money is counted in cents (50.00 is 5000).  portfolio.dailyReturn and   *)
(* the timestamp fields (lastLockTime, savedAt, historicalData.timestamps) *)
(* depend only on the wall clock and are left out of the records;          *)
(* historicalData is its `values` array.                                   *)
(*                                                                         *)
(* Spec is the session life cycle: the socket events of one client         *)
(* connection at a time, the trade-generation interval and the wallet      *)
(* state files.  LedgerSpec adds the profit-lock endpoints to a demo       *)
(* session.  TradeLogSpec is one long demo session.  PriceSpec is the      *)
(* DexConnector of the server (web/server/modules/dexConnector.js): the    *)
(* price cache and the asynchronous calls getTokenPrice, getQuote and      *)
(* isTokenTradeable, each suspended at its upstream requests.              *)
(* MLSpec, WeightSpec and RetrainSpec are the MLBridge of the server       *)
(* (unnamed/part_000): predict, learnFromTrade, learnFromTrades, train     *)
(* and setEnabled, called in any order, then with wrong predictions only,  *)
(* then with winning trades only.  TickSpec is a demo session whose        *)
(* generateAndProcessTrade calls are followed from one getTokenPrice       *)
(* request to the next.  LoadSpec is a live start over the wallet state    *)
(* files that loadWalletState can find, with any of the saved fields       *)
(* missing.  ClientSpec is a demo session with the toggle_ml and           *)
(* trade_executed commands and the /api/ml/toggle endpoint.  ExecutorSpec  *)
(* is the TradeExecutor class (start, stop, processTradingJobs) and        *)
(* ManagerSpec the WalletManager of dexConnector.js with calls that        *)
(* overlap at their await.                                                 *)
(***************************************************************************)
EXTENDS Integers, Sequences, FiniteSets, TLC

\* ----------------------------------------------------------------------
\* Bounds of the model
\* ----------------------------------------------------------------------
MaxTrades == 2        \* entries held in state.trades and in profitLock.history
MaxInFlight == 1      \* generateAndProcessTrade calls suspended at an await
MaxLog == 101         \* trades pushed in one session of TradeLogSpec
MaxClock == 120000    \* ms of wall-clock time that PriceSpec covers
MaxLearn == 2         \* learnFromTrade calls counted by a scorer of MLSpec
MaxBatchTrades == 1   \* trades held in trainingData in MLSpec
MaxTraining == 10     \* trades held in trainingData in WeightSpec
MaxWeightEvents == 21 \* learnFromTrade calls counted by a scorer of WeightSpec
MaxRetrainEvents == 51 \* learnFromTrade calls counted by a scorer of RetrainSpec
MaxLoops == 2         \* setTimeout calls of processTradingJobs not yet fired
MaxHistory == 4       \* entries in the trades list of a WalletManager balance

\* ----------------------------------------------------------------------
\* Values
\* ----------------------------------------------------------------------
NULL == "null"
UNDEFINED == "undefined"
Wallets == {"abc"}
Sockets == {"s1"}
Modes == {"demo", "live"}
Times == {1, 2}
Profits == {500, -300}
WithdrawAmounts == {-50, 0, 100}
Percentages == {50, 150}
TimerIds == {1, 2}

StartingBalance == 5000
DefaultAccuracy == 85
DefaultLockPercentage == 20
LiveTradingEnabled == FALSE
MAX_TRADES_IN_MEMORY == 100

VARIABLES
  clients,          \* sockets currently connected
  socketWallet,     \* socket.walletAddress of each socket
  tradingControl,   \* state.tradingControl: isRunning, mode, startTime
  walletAddress,    \* state.liveTrading.walletAddress
  portfolio,        \* state.portfolio: value, totalPnL, balance, mlAccuracy
  trades,           \* state.trades
  profitLock,       \* state.profitLock
  mlStats,          \* state.mlStats
  historicalData,   \* state.historicalData.values
  tradingInterval,  \* state.tradingInterval: 0 is null, else a timer handle
  timers,           \* interval timers that are active in the event loop
  inflight,         \* suspended generateAndProcessTrade calls
  walletFiles,      \* DATA_DIR/wallets/<hash>.json
  lastOp,           \* the event the server handled last
  emitted,          \* what the last handler sent back to its caller
  saveResult,       \* what saveWalletState returned in the last handler
  priceCache,       \* DexConnector.priceCache: mint -> {price, timestamp, source}
  clock,            \* Date.now(), in ms since the server started
  calls,            \* the DexConnector calls suspended at an upstream request
  returned,         \* what the last DexConnector step returned to its caller
  mlBridge,         \* the MLBridge instance: enabled, counters, featureImportance
  mlReturned,       \* what the last MLBridge method call was and returned
  tick,             \* one generateAndProcessTrade call, followed token by token
  tradeHistory,     \* state.tradeHistory
  mlEnabled,        \* state.mlEnabled
  snapshot,         \* a wallet state file as loadWalletState parses it
  restored,         \* the session that a live start makes of the snapshot
  tradeExecutor,    \* the TradeExecutor instance and its processing loops
  walletManager     \* the WalletManager instance and its suspended calls

\* The state of the trading server
serverVars == <<clients, socketWallet, tradingControl, walletAddress, portfolio,
                trades, profitLock, mlStats, historicalData, tradingInterval,
                timers, inflight, walletFiles, lastOp, emitted, saveResult>>

\* The state of its DexConnector
dexVars == <<priceCache, clock, calls, returned>>

\* The state of its MLBridge
mlVars == <<mlBridge, mlReturned>>

vars == <<clients, socketWallet, tradingControl, walletAddress, portfolio,
          trades, profitLock, mlStats, historicalData, tradingInterval,
          timers, inflight, walletFiles, lastOp, emitted, saveResult,
          priceCache, clock, calls, returned, mlBridge, mlReturned, tick,
          tradeHistory, mlEnabled, snapshot, restored, tradeExecutor,
          walletManager>>

\* The snapshot loader, the TradeExecutor and the WalletManager
loadVars == <<snapshot, restored>>
jobVars == <<tradeExecutor, walletManager>>

\* What the handlers of the trading server, the DexConnector, the MLBridge,
\* the token-by-token tick, the ML toggles, the snapshot loader, the
\* TradeExecutor and the WalletManager leave alone.
outsideServer == <<dexVars, mlVars, tick, tradeHistory, mlEnabled, loadVars,
                   jobVars>>
outsideDex == <<serverVars, mlVars, tick, tradeHistory, mlEnabled, loadVars,
                jobVars>>
outsideMl == <<serverVars, dexVars, tick, tradeHistory, mlEnabled, loadVars,
               jobVars>>
outsideTick == <<serverVars, dexVars, mlVars, tradeHistory, mlEnabled,
                 loadVars, jobVars>>
outsideToggle == <<dexVars, tick, tradeHistory, loadVars, jobVars>>
outsideLoad == <<serverVars, dexVars, mlVars, tick, tradeHistory, mlEnabled,
                 jobVars>>
outsideExecutor == <<serverVars, dexVars, mlVars, tick, tradeHistory,
                     mlEnabled, loadVars, walletManager>>
outsideManager == <<serverVars, dexVars, mlVars, tick, tradeHistory,
                    mlEnabled, loadVars, tradeExecutor>>

\* The part of the state that saveWalletState writes and loadWalletState reads.
sessionVars == <<portfolio, trades, profitLock, mlStats, historicalData>>

\* ----------------------------------------------------------------------
\* Records
\* ----------------------------------------------------------------------

\* state.portfolio as start_trading and startMarketDataTrading write it.
freshPortfolio(accuracy) ==
  [value |-> StartingBalance, totalPnL |-> 0, balance |-> StartingBalance,
   mlAccuracy |-> accuracy]

\* The five fields of `state` that make up a wallet's saved state.
SessionState ==
  [portfolio |-> portfolio, trades |-> trades, profitLock |-> profitLock,
   mlStats |-> mlStats, historicalData |-> historicalData]

\* The fields of a written wallet state (savedAt, a timestamp, is left out)
SnapshotFields ==
  {"portfolio", "trades", "profitLock", "mlStats", "historicalData"}

InitialSession ==
  [portfolio |-> freshPortfolio(DefaultAccuracy),
   trades |-> <<>>,
   profitLock |-> [enabled |-> TRUE, percentage |-> DefaultLockPercentage,
                   lockedBalance |-> 0, totalLocked |-> 0, history |-> <<>>],
   mlStats |-> [predictions |-> 0, correctPredictions |-> 0,
                accuracy |-> DefaultAccuracy],
   historicalData |-> <<StartingBalance>>]

\* A hash that is the address itself
walletInClear(w) == w

\* crypto.createHash('sha256').update(walletAddress).digest('hex').slice(0, 16)
walletHash(w) ==
  CASE w = "abc" -> "ba7816bf8f01cfea"

Hashes == {walletHash(w) : w \in Wallets}

\* A file of DATA_DIR/wallets: missing, unparseable, or a written wallet state.
NoFile == [exists |-> FALSE, parses |-> FALSE, data |-> InitialSession]
CorruptFile == [exists |-> TRUE, parses |-> FALSE, data |-> InitialSession]
writtenFile(S) == [exists |-> TRUE, parses |-> TRUE, data |-> S]

NoReply == [event |-> "none", success |-> FALSE, mode |-> NULL]
reply(e, ok, m) == [event |-> e, success |-> ok, mode |-> m]
event(n, s, m) == [name |-> n, socket |-> s, mode |-> m]

\* ----------------------------------------------------------------------
\* Wallet state store
\* ----------------------------------------------------------------------

\* saveWalletState: the outcomes of one call.  fs.writeFileSync either
\* writes the whole file, or throws having written nothing or a truncated
\* file; the catch turns the exception into `false`.
saveWalletState(w, S) ==
  IF w \in {NULL, UNDEFINED}
    THEN {[ret |-> "no_wallet", files |-> walletFiles]}
    ELSE {[ret |-> "saved",
           files |-> [walletFiles EXCEPT ![walletHash(w)] = writtenFile(S)]],
          [ret |-> "write_failed", files |-> walletFiles],
          [ret |-> "write_failed",
           files |-> [walletFiles EXCEPT ![walletHash(w)] = CorruptFile]]}

NotSaved == {[ret |-> "not_called", files |-> walletFiles]}

\* loadWalletState: whether it returned true, and `state` afterwards.
loadWalletState(w, S) ==
  IF w \in {NULL, UNDEFINED} THEN [ok |-> FALSE, state |-> S]
  ELSE LET file == walletFiles[walletHash(w)] IN
       IF ~file.exists THEN [ok |-> FALSE, state |-> S]
       ELSE IF ~file.parses THEN [ok |-> FALSE, state |-> S]
       ELSE [ok |-> TRUE, state |-> file.data]

\* ----------------------------------------------------------------------
\* Session start: the reset logic of start_trading and startMarketDataTrading
\* ----------------------------------------------------------------------

\* A demo reset that keeps the profit-lock history of the last session
demoResetKeepingHistory(S) ==
  [S EXCEPT !.trades = <<>>,
            !.portfolio = freshPortfolio(S.mlStats.accuracy),
            !.profitLock.lockedBalance = 0,
            !.profitLock.totalLocked = 0,
            !.historicalData = <<0>>]

\* start_trading, mode === 'demo'
demoReset(S) ==
  [S EXCEPT !.trades = <<>>,
            !.portfolio = freshPortfolio(S.mlStats.accuracy),
            !.profitLock.lockedBalance = 0,
            !.profitLock.totalLocked = 0,
            !.profitLock.history = <<>>,
            !.historicalData = <<0>>]

\* start_trading, mode === 'live', loadWalletState returned false
liveFresh(S) ==
  IF S.portfolio.value = 0 THEN [S EXCEPT !.portfolio.value = 0] ELSE S

\* startMarketDataTrading: what it resets before it sets the interval
marketDataReset(S) ==
  [S EXCEPT !.portfolio = freshPortfolio(S.mlStats.accuracy),
            !.trades = <<>>,
            !.profitLock.lockedBalance = 0,
            !.profitLock.totalLocked = 0]

\* A clearInterval that leaves the timer running
clearIntervalIgnored(active, handle) == active

clearInterval(active, handle) == active \ {handle}

\* setInterval returns a handle that no active timer has.
setInterval(active) ==
  CHOOSE h \in TimerIds \ active : \A g \in TimerIds \ active : h <= g

requestedMode(m) == IF m = UNDEFINED THEN "demo" ELSE m

\* !walletAddress
falsy(w) == w \in {NULL, UNDEFINED}

liveWithoutWallet(s, m) == requestedMode(m) = "live" /\ falsy(socketWallet[s])

\* A start_trading that never finds trading running
alreadyRunningSkipped == FALSE

alreadyRunning == tradingControl.isRunning

\* A stop_trading that never finds trading stopped
notRunningSkipped == FALSE

notRunning == ~tradingControl.isRunning

Install(S) ==
  /\ portfolio' = S.portfolio
  /\ trades' = S.trades
  /\ profitLock' = S.profitLock
  /\ mlStats' = S.mlStats
  /\ historicalData' = S.historicalData

\* ----------------------------------------------------------------------
\* Ledger
\* ----------------------------------------------------------------------

\* The trade object that generateAndProcessTrade builds: profit is
\* profitAmount.toFixed(2), which updatePortfolio reads back with parseFloat.
demoTrade(p) == [profit |-> p, status |-> "completed", success |-> p > 0]

\* An updatePortfolio that locks a share of every trade's profit, losses too
updatePortfolioLockingLosses(S, trade) ==
  LET profitAmount == trade.profit
      lockAmount == (profitAmount * S.profitLock.percentage) \div 100
  IN [S EXCEPT !.portfolio.value = @ + profitAmount,
               !.portfolio.totalPnL = @ + profitAmount,
               !.profitLock.lockedBalance = @ + lockAmount,
               !.profitLock.totalLocked = @ + lockAmount,
               !.profitLock.history =
                  Append(@, [profit |-> profitAmount, lockAmount |-> lockAmount])]

\* An updatePortfolio that locks whether or not profit locking is enabled
updatePortfolioAlwaysLocking(S, trade) ==
  LET profitAmount == trade.profit
      lockAmount == (profitAmount * S.profitLock.percentage) \div 100
      credited == [S EXCEPT !.portfolio.value = @ + profitAmount,
                            !.portfolio.totalPnL = @ + profitAmount]
  IN IF profitAmount > 0
       THEN [credited EXCEPT
               !.profitLock.lockedBalance = @ + lockAmount,
               !.profitLock.totalLocked = @ + lockAmount,
               !.profitLock.history =
                  Append(@, [profit |-> profitAmount, lockAmount |-> lockAmount])]
       ELSE credited

\* updatePortfolio(trade)
updatePortfolio(S, trade) ==
  LET profitAmount == trade.profit
      lockAmount == (profitAmount * S.profitLock.percentage) \div 100
      credited == [S EXCEPT !.portfolio.value = @ + profitAmount,
                            !.portfolio.totalPnL = @ + profitAmount]
  IN IF S.profitLock.enabled /\ profitAmount > 0
       THEN [credited EXCEPT
               !.profitLock.lockedBalance = @ + lockAmount,
               !.profitLock.totalLocked = @ + lockAmount,
               !.profitLock.history =
                  Append(@, [profit |-> profitAmount, lockAmount |-> lockAmount])]
       ELSE credited

\* ----------------------------------------------------------------------
\* DexConnector: values and records
\* ----------------------------------------------------------------------
USDC_ADDRESS == "USDC"
Mints == {"SOL"}
Calls == {1, 2}                  \* calls that can be in progress together
Advances == {59999, 60000}       \* ms by which the clock moves between steps
HeliusPrices == {0, 150}         \* price_per_token values Helius can report
JupiterPrices == {0, 160}        \* price values Jupiter can report
QuoteAmounts == {0, 899999, 900000}   \* outAmount values of a Jupiter quote

priceCacheTTL == 60 * 1000
QUOTE_INPUT == 1000 * 1000       \* 1 USDC in its smallest unit

\* What an upstream request ends with: it throws or is answered with an
\* error status ("error"), is answered without the field asked for
\* ("missing"), or is answered with a value.
failed == [kind |-> "error", value |-> 0]
missing == [kind |-> "missing", value |-> 0]
answered(v) == [kind |-> "value", value |-> v]

HeliusResponses == {failed, missing} \cup {answered(v) : v \in HeliusPrices}
JupiterResponses == {failed, missing} \cup {answered(v) : v \in JupiterPrices}
DirectResponses == {failed} \cup {answered(v) : v \in JupiterPrices}
QuoteResponses == {failed, missing} \cup {answered(v) : v \in QuoteAmounts}

\* An entry of priceCache; NoEntry when the Map has no entry for the mint.
NoEntry == [has |-> FALSE, price |-> 0, timestamp |-> 0, source |-> "Unknown"]
entry(price, now, source) ==
  [has |-> TRUE, price |-> price, timestamp |-> now, source |-> source]

\* A call in progress: the method, its mint, the value of `now` it read,
\* the request it is waiting for, the price it resolved (<<>> is null),
\* the sources it has queried and the amount it asks the sell quote for.
IdleCall == [op |-> "none", mint |-> NULL, now |-> 0, stage |-> "idle",
             price |-> <<>>, queried |-> <<>>, sellAmount |-> <<>>]

\* What a step returned to the caller of the method; done is FALSE when
\* the step returned nothing (the call is still suspended).
NoReturn == [done |-> FALSE, call |-> 0, op |-> "none", mint |-> NULL,
             now |-> 0, hit |-> FALSE, queried |-> <<>>, price |-> <<>>,
             source |-> "Unknown",
             quote |-> "none", outAmount |-> <<>>, tradeable |-> FALSE,
             reason |-> "none", quotes |-> 0, sellIn |-> <<>>,
             sellOut |-> <<>>, impliedSlippage |-> 0]

DexInit ==
  /\ priceCache = [m \in Mints |-> NoEntry]
  /\ clock = 0
  /\ calls = [c \in Calls |-> IdleCall]
  /\ returned = NoReturn

\* ----------------------------------------------------------------------
\* MLBridge (unnamed/part_000): the adaptive scorer
\*
\* Feature weights and impacts are counted in hundredths, probabilities in
\* ten-thousandths (weight times impact), confidence in hundred-thousandths
\* and accuracy in hundredths of a percent, rounded down.  The model keeps
\* three of the ten features; trainingData is its length.  Feature values
\* are finite numbers.
\* ----------------------------------------------------------------------
Features == {"profitPercentage", "slippage", "trendAlignment"}

\* this.featureImportance as the constructor sets it
featureImportance ==
  [profitPercentage |-> 35, slippage |-> 10, trendAlignment |-> 5]

\* this.accuracy as the constructor sets it (85 percent)
defaultMLAccuracy == 8500

\* const adjustmentFactor = 0.01 of learnFromTrade
adjustmentFactor == 1

\* learnFromTrade calls train() when totalPredictions % 50 === 0
retrainPeriod == 50

\* train() sets accuracy to Math.min(97, base + improvements), a random
\* value between 80 and 97 percent; these are its two ends.
TrainedAccuracies == {8000, 9700}

\* predict() of a disabled scorer returns Math.random() * 0.5 + 0.4
RandomProbabilities == {4000, 8999}

Math_min(a, b) == IF a < b THEN a ELSE b
Math_max(a, b) == IF a > b THEN a ELSE b
Math_abs(a) == IF a < 0 THEN 0 - a ELSE a
Math_sign(a) == IF a > 0 THEN 1 ELSE IF a < 0 THEN 0 - 1 ELSE 0

\* new MLBridge()
NewMLBridge ==
  [enabled |-> TRUE, accuracy |-> defaultMLAccuracy, correctPredictions |-> 0,
   totalPredictions |-> 0, successfulTrades |-> 0, failedTrades |-> 0,
   trainingData |-> 0, featureImportance |-> featureImportance]

\* The last method call on the MLBridge: its name, what it returned (in a
\* one-element sequence), whether it ran train(), and the data or trade it
\* was given.
mlCall(op, result, trained, data, trade) ==
  [op |-> op, result |-> <<result>>, trained |-> trained, data |-> data,
   trade |-> trade]

MLInit ==
  /\ mlBridge = NewMLBridge
  /\ mlReturned = mlCall("constructor", TRUE, FALSE, <<>>, <<>>)

\* Inputs of predict(): profitPercentage and slippage in hundredths.
ProfitInputs == {0, 250}
SlippageInputs == {50, 0 - 20000}
TrendInputs == {0 - 1000}
MarketTrends == {"up", "down", "neutral"}
Data ==
  {[profitPercentage |-> p, slippage |-> s] :
      p \in ProfitInputs, s \in SlippageInputs}
  \cup {[profitPercentage |-> p, trendAlignment |-> t] :
      p \in ProfitInputs, t \in TrendInputs}
  \cup {[marketTrend |-> m] : m \in MarketTrends}

\* engineerFeatures(data): the features of the model that predict() reads.
\* A feature that stays undefined is <<>>, a defined one is <<value>>.
engineerFeatures(data) ==
  [profitPercentage |->
     <<IF "profitPercentage" \in DOMAIN data THEN data.profitPercentage
       ELSE 0>>,
   slippage |->
     <<IF "slippage" \in DOMAIN data THEN data.slippage ELSE 0>>,
   trendAlignment |->
     IF "marketTrend" \in DOMAIN data
       THEN <<IF data.marketTrend = "up" THEN 1
              ELSE IF data.marketTrend = "down" THEN 0 - 1 ELSE 0>>
     ELSE IF "trendAlignment" \in DOMAIN data THEN <<data.trendAlignment>>
     ELSE <<>>]

\* calculateProfitImpact(profitPercentage)
calculateProfitImpact(profitPercentage) ==
  IF profitPercentage >= 200 THEN 35
  ELSE IF profitPercentage >= 150 THEN 30
  ELSE IF profitPercentage >= 100 THEN 25
  ELSE IF profitPercentage >= 50 THEN 15
  ELSE IF profitPercentage >= 20 THEN 5
  ELSE 0 - 10

\* The switch of predict(): the impact of one feature value.
impactOf(feature, value) ==
  IF feature = "profitPercentage" THEN calculateProfitImpact(value)
  ELSE IF feature = "slippage" THEN 0 - Math_min(50, value \div 2)
  ELSE IF feature = "trendAlignment" THEN value * 15
  ELSE 0

\* impact * weight of one feature, 0 when the loop of predict() skips it.
weightedImpact(B, engineeredData, feature) ==
  IF engineeredData[feature] # <<>> /\ B.featureImportance[feature] > 0
    THEN impactOf(feature, engineeredData[feature][1])
         * B.featureImportance[feature]
    ELSE 0

\* A probability that is not limited to a range
unlimitedProbability(p) == p

\* Math.max(0.05, Math.min(0.95, successProbability))
limitProbability(p) == Math_max(500, Math_min(9500, p))

\* predict(data) of an enabled scorer
enabledPrediction(B, data) ==
  LET engineeredData == engineerFeatures(data)
      successProbability ==
        limitProbability(5000
          + weightedImpact(B, engineeredData, "profitPercentage")
          + weightedImpact(B, engineeredData, "slippage")
          + weightedImpact(B, engineeredData, "trendAlignment"))
      predictionCertainty == Math_abs(successProbability - 5000) * 2
      historicalAccuracy ==
        IF B.accuracy = 0 THEN defaultMLAccuracy ELSE B.accuracy
      confidence == 50000 + predictionCertainty * 3 + historicalAccuracy * 2
  IN [prediction |-> IF successProbability > 5000 THEN 1 ELSE 0,
      confidence |-> Math_min(98000, confidence),
      probability |-> successProbability]

\* A random prediction that does not say the scorer is disabled
untaggedPrediction(prediction, probability) ==
  [prediction |-> prediction, confidence |-> 50000,
   probability |-> probability]

\* predict(data) of a disabled scorer
disabledPrediction(prediction, probability) ==
  [prediction |-> prediction, confidence |-> 50000,
   probability |-> probability, isDisabled |-> TRUE]

\* predict(data); prediction and probability are what Math.random() leads
\* a disabled scorer to.
predict(data) ==
  /\ IF mlBridge.enabled
       THEN mlReturned' = mlCall("predict", enabledPrediction(mlBridge, data),
                                 FALSE, <<data>>, <<>>)
       ELSE \E prediction \in {0, 1}, probability \in RandomProbabilities :
              mlReturned' = mlCall("predict",
                                   disabledPrediction(prediction, probability),
                                   FALSE, <<data>>, <<>>)
  /\ UNCHANGED mlBridge
  /\ UNCHANGED outsideMl

\* setEnabled(enabled)
setEnabled(enabled) ==
  /\ mlBridge' = [mlBridge EXCEPT !.enabled = enabled]
  /\ mlReturned' = mlCall("setEnabled", enabled, FALSE, <<>>, <<>>)
  /\ UNCHANGED outsideMl

\* train() on scorer B when Math.random() leads to the given accuracy
trained(B, accuracy) ==
  IF B.successfulTrades + B.failedTrades = 0
    THEN [bridge |-> B, success |-> FALSE]
    ELSE [bridge |-> [B EXCEPT !.accuracy = accuracy], success |-> TRUE]

\* train()
train ==
  \E accuracy \in TrainedAccuracies :
    /\ mlBridge' = trained(mlBridge, accuracy).bridge
    /\ mlReturned' = mlCall("train", trained(mlBridge, accuracy).success,
                            trained(mlBridge, accuracy).success, <<>>, <<>>)
    /\ UNCHANGED outsideMl

\* A weight that is not kept within a range
anyWeight(w) == w

\* Math.max(0.01, Math.min(0.5, currentWeight + adjustment))
keptWeight(w) == Math_max(1, Math_min(50, w))

\* predictionDetails.contributingFactors || []
contributingFactors(predictionDetails) ==
  IF "contributingFactors" \in DOMAIN predictionDetails
    THEN predictionDetails.contributingFactors
    ELSE <<>>

\* contributingFactors.forEach(factor => ...) of learnFromTrade
RECURSIVE adjusted(_, _)
adjusted(weights, factors) ==
  IF factors = <<>> THEN weights
  ELSE LET factor == Head(factors)
           currentWeight == weights[factor.feature]
           adjustment == (0 - Math_sign(factor.impact)) * adjustmentFactor
       IN adjusted([weights EXCEPT ![factor.feature] =
                       keptWeight(currentWeight + adjustment)],
                   Tail(factors))

\* if (success) this.successfulTrades++; else this.failedTrades++;
counted(B, success) ==
  IF success THEN [B EXCEPT !.successfulTrades = @ + 1]
  ELSE [B EXCEPT !.failedTrades = @ + 1]

\* learnFromTrade(trade) on scorer B: the scorer afterwards, what the call
\* returns and whether it ran train(); accuracy is what train() would set.
learned(B, trade, accuracy) ==
  IF ~B.enabled
    THEN [bridge |-> B, result |-> FALSE, trained |-> FALSE]
  ELSE
    LET B1 == [B EXCEPT !.totalPredictions = @ + 1]
    IN IF "predictionDetails" \notin DOMAIN trade
         THEN [bridge |-> counted(B1, trade.success), result |-> FALSE,
               trained |-> FALSE]
       ELSE
         LET predictionDetails == trade.predictionDetails
             predictedSuccess == predictionDetails.prediction = 1
             wasCorrect == predictedSuccess = trade.success
             B2 == IF wasCorrect
                     THEN [B1 EXCEPT !.correctPredictions = @ + 1]
                     ELSE [B1 EXCEPT !.featureImportance =
                             adjusted(@, contributingFactors(predictionDetails))]
             B3 == counted(B2, trade.success)
             B4 == [B3 EXCEPT !.accuracy =
                      (B3.correctPredictions * 10000) \div B3.totalPredictions]
             retrain == B4.totalPredictions % retrainPeriod = 0
         IN [bridge |-> IF retrain THEN trained(B4, accuracy).bridge ELSE B4,
             result |-> TRUE, trained |-> retrain]

\* learnFromTrade(trade); accuracy is drawn where train() runs.
learnFromTrade(trade) ==
  \E accuracy \in IF learned(mlBridge, trade, defaultMLAccuracy).trained
                    THEN TrainedAccuracies ELSE {defaultMLAccuracy} :
    /\ mlBridge' = learned(mlBridge, trade, accuracy).bridge
    /\ mlReturned' = mlCall("learnFromTrade",
                            learned(mlBridge, trade, accuracy).result,
                            learned(mlBridge, trade, accuracy).trained,
                            <<>>, <<trade>>)
    /\ UNCHANGED outsideMl

\* The number of trades of a batch with the given outcome
RECURSIVE countOf(_, _)
countOf(batch, success) ==
  IF batch = <<>> THEN 0
  ELSE (IF Head(batch).success = success THEN 1 ELSE 0)
       + countOf(Tail(batch), success)

\* learnFromTrades(trades)
learnFromTrades(batch) ==
  \E accuracy \in TrainedAccuracies :
    LET B1 == [mlBridge EXCEPT
                 !.successfulTrades = @ + countOf(batch, TRUE),
                 !.failedTrades = @ + countOf(batch, FALSE),
                 !.trainingData = Math_min(500, @ + Len(batch))]
        retrain == B1.trainingData >= 10
    IN
    /\ IF batch = <<>>
         THEN /\ UNCHANGED mlBridge
              /\ mlReturned' = mlCall("learnFromTrades", FALSE, FALSE,
                                      <<>>, <<>>)
         ELSE /\ mlBridge' = IF retrain THEN trained(B1, accuracy).bridge
                             ELSE B1
              /\ mlReturned' = mlCall("learnFromTrades", TRUE, retrain,
                                      <<>>, <<>>)
    /\ UNCHANGED outsideMl

\* The trades given to learnFromTrade: with no prediction record, with the
\* record that the last predict() returned, or with a record that lists
\* contributing factors (FactorLists in WeightSpec, the first of them in
\* MLSpec).
TradeIds == {1}
ProfitFactors ==
  {<<[feature |-> "profitPercentage", impact |-> 0 - 35]>>}
FactorLists ==
  ProfitFactors
  \cup {<<[feature |-> "trendAlignment", impact |-> 75]>>,
        <<[feature |-> "slippage", impact |-> 0],
          [feature |-> "trendAlignment", impact |-> 0 - 75]>>}
bareTrade(id, success) == [id |-> id, success |-> success]
tradeWith(id, success, predictionDetails) ==
  [id |-> id, success |-> success, predictionDetails |-> predictionDetails]
PredictedTrades ==
  IF mlReturned.op = "predict"
    THEN {tradeWith(id, success, mlReturned.result[1]) :
            id \in TradeIds, success \in BOOLEAN}
    ELSE {}
Trades ==
  {bareTrade(id, success) : id \in TradeIds, success \in BOOLEAN}
  \cup PredictedTrades
  \cup {tradeWith(id, success,
                  [prediction |-> p, contributingFactors |-> factors]) :
          id \in TradeIds, success \in BOOLEAN, p \in {0, 1},
          factors \in ProfitFactors}
Batches == {<<>>, <<bareTrade(1, FALSE)>>}
LargeBatches == {[i \in 1..10 |-> bareTrade(i, TRUE)]}

\* ----------------------------------------------------------------------
\* The tokens of one generateAndProcessTrade call
\* ----------------------------------------------------------------------

\* KNOWN_TRADEABLE_TOKENS, its first three entries; token discovery adds
\* no token.
KNOWN_TRADEABLE_TOKENS == <<"SOL", "USDC", "BONK">>

\* What dexConnector.getTokenPrice resolves to for a token of the list, in
\* cents: null, 0 or a price.
TokenPrices == {<<>>, <<0>>, <<100>>}

\* 150.00 + (Math.random() * 10 - 5), its two ends
FallbackSolPrices == {14500, 15499}

\* A token with its price; priceFrom records where the price comes from.
token(symbol, price, priceFrom) ==
  [symbol |-> symbol, price |-> price, priceFrom |-> priceFrom]

\* The call before its first price request: availableTokens is the list
\* still to be priced, trade the trade object the last call created.
NewTick ==
  [availableTokens |-> KNOWN_TRADEABLE_TOKENS, tokensWithPrices |-> <<>>,
   trade |-> <<>>]

\* ----------------------------------------------------------------------
\* Initial values of the snapshot reader, the TradeExecutor and the
\* WalletManager
\* ----------------------------------------------------------------------

\* No snapshot file for the wallet
NoSnapshot == <<>>

\* The session fields of the process before any start_trading, each one
\* present: <<v>> is a field holding v, <<>> a field that is undefined.
definedSession(S) ==
  [portfolio |-> <<S.portfolio>>, trades |-> <<S.trades>>,
   profitLock |-> <<S.profitLock>>, mlStats |-> <<S.mlStats>>,
   historicalData |-> <<S.historicalData>>]

NotStarted ==
  [op |-> "none", state |-> definedSession(InitialSession),
   intervalSet |-> FALSE, emitted |-> NoReply]

\* new TradeExecutor(): not running, no trading job; timeouts counts the
\* setTimeout calls of processTradingJobs that have not fired yet.
NewTradeExecutor ==
  [isRunning |-> FALSE, tradingJobs |-> <<>>, timeouts |-> 0,
   lastCall |-> "constructor"]

\* new WalletManager() when the data files do not exist yet: no trading
\* wallet, no user balance, no call suspended.
NoManagerCall == [op |-> "none", amount |-> 0]
ManagerCalls == {1, 2}
NewWalletManager ==
  [tradingWallets |-> FALSE, userBalances |-> <<>>,
   calls |-> [c \in ManagerCalls |-> NoManagerCall],
   returned |-> [op |-> "constructor", success |-> TRUE, message |-> ""]]

\* ----------------------------------------------------------------------
\* Initial state: the module-level `state` object, no client connected
\* ----------------------------------------------------------------------
Init ==
  /\ clients = {}
  /\ socketWallet = [s \in Sockets |-> UNDEFINED]
  /\ tradingControl = [isRunning |-> FALSE, mode |-> "demo", startTime |-> 0]
  /\ walletAddress = NULL
  /\ portfolio = InitialSession.portfolio
  /\ trades = InitialSession.trades
  /\ profitLock = InitialSession.profitLock
  /\ mlStats = InitialSession.mlStats
  /\ historicalData = InitialSession.historicalData
  /\ tradingInterval = 0
  /\ timers = {}
  /\ inflight = [fresh |-> 0, stale |-> 0]
  /\ walletFiles = [h \in Hashes |-> NoFile]
  /\ lastOp = event("listen", NULL, NULL)
  /\ emitted = NoReply
  /\ saveResult = "not_called"
  /\ DexInit
  /\ MLInit
  /\ tick = NewTick
  /\ tradeHistory = UNDEFINED
  /\ mlEnabled = TRUE
  /\ snapshot = NoSnapshot
  /\ restored = NotStarted
  /\ tradeExecutor = NewTradeExecutor
  /\ walletManager = NewWalletManager

\* ----------------------------------------------------------------------
\* Socket events
\* ----------------------------------------------------------------------

\* io.on('connection'): a new socket, with no walletAddress yet.
connection(s) ==
  /\ s \notin clients
  /\ clients' = clients \cup {s}
  /\ socketWallet' = [socketWallet EXCEPT ![s] = UNDEFINED]
  /\ lastOp' = event("connection", s, NULL)
  /\ emitted' = reply("connection_established", TRUE, NULL)
  /\ saveResult' = "not_called"
  /\ UNCHANGED <<tradingControl, walletAddress, sessionVars, tradingInterval,
                 timers, inflight, walletFiles>>
  /\ UNCHANGED outsideServer

\* socket.on('connect_wallet'); a is data.address, NULL when it is missing.
connect_wallet(s, a) ==
  /\ s \in clients
  /\ lastOp' = event("connect_wallet", s, NULL)
  /\ saveResult' = "not_called"
  /\ IF a # NULL
       THEN /\ socketWallet' = [socketWallet EXCEPT ![s] = a]
            /\ emitted' = reply("wallet_status", TRUE, NULL)
            /\ IF LiveTradingEnabled /\ walletAddress = NULL
                 THEN /\ walletAddress' = a
                      /\ Install(loadWalletState(a, SessionState).state)
                 ELSE UNCHANGED <<walletAddress, sessionVars>>
       ELSE /\ emitted' = reply("error", FALSE, NULL)
            /\ UNCHANGED <<socketWallet, walletAddress, sessionVars>>
  /\ UNCHANGED <<clients, tradingControl, tradingInterval, timers, inflight,
                 walletFiles>>
  /\ UNCHANGED outsideServer

\* socket.on('disconnect_wallet')
disconnect_wallet(s) ==
  /\ s \in clients
  /\ lastOp' = event("disconnect_wallet", s, NULL)
  /\ emitted' = reply("wallet_status", FALSE, NULL)
  /\ socketWallet' = [socketWallet EXCEPT ![s] = NULL]
  /\ IF socketWallet[s] = walletAddress
       THEN /\ \E sv \in (IF tradingControl.mode = "live"
                            THEN saveWalletState(socketWallet[s], SessionState)
                            ELSE NotSaved) :
                 /\ walletFiles' = sv.files
                 /\ saveResult' = sv.ret
            /\ walletAddress' = NULL
       ELSE /\ saveResult' = "not_called"
            /\ UNCHANGED <<walletFiles, walletAddress>>
  /\ UNCHANGED <<clients, tradingControl, sessionVars, tradingInterval, timers,
                 inflight>>
  /\ UNCHANGED outsideServer

\* socket.on('disconnect'); the socket object is discarded afterwards.
disconnect(s) ==
  /\ s \in clients
  /\ clients' = clients \ {s}
  /\ socketWallet' = [socketWallet EXCEPT ![s] = UNDEFINED]
  /\ lastOp' = event("disconnect", s, NULL)
  /\ emitted' = NoReply
  /\ \E sv \in (IF socketWallet[s] = walletAddress /\ tradingControl.mode = "live"
                  THEN saveWalletState(socketWallet[s], SessionState)
                  ELSE NotSaved) :
        /\ walletFiles' = sv.files
        /\ saveResult' = sv.ret
  /\ UNCHANGED <<tradingControl, walletAddress, sessionVars,
                 tradingInterval, timers, inflight>>
  /\ UNCHANGED outsideServer

\* socket.on('start_trading'); m is data.mode, now is Date.now().
start_trading(s, m, now) ==
  LET mode == requestedMode(m)
      wallet == socketWallet[s]
      loaded == loadWalletState(wallet, SessionState)
      branch == IF mode = "demo" THEN demoReset(SessionState)
                ELSE IF loaded.ok THEN loaded.state
                ELSE liveFresh(SessionState)
      cleared == clearInterval(timers, tradingInterval)
      handle == setInterval(cleared)
  IN
  /\ s \in clients
  /\ now >= tradingControl.startTime
  /\ lastOp' = event("start_trading", s, m)
  /\ saveResult' = "not_called"
  /\ IF liveWithoutWallet(s, m)
       THEN /\ emitted' = reply("error", FALSE, NULL)
            /\ UNCHANGED <<tradingControl, walletAddress, sessionVars,
                           tradingInterval, timers>>
     ELSE IF alreadyRunning
       THEN /\ emitted' = reply("trading_started", TRUE, tradingControl.mode)
            /\ UNCHANGED <<tradingControl, walletAddress, sessionVars,
                           tradingInterval, timers>>
     ELSE /\ tradingControl' =
                [isRunning |-> TRUE, mode |-> mode, startTime |-> now]
          /\ walletAddress' = IF mode = "live" THEN wallet ELSE NULL
          /\ Install(marketDataReset(branch))
          /\ timers' = cleared \cup {handle}
          /\ tradingInterval' = handle
          /\ emitted' = reply("trading_started", TRUE, mode)
  /\ UNCHANGED <<clients, socketWallet, inflight, walletFiles>>
  /\ UNCHANGED outsideServer

\* socket.on('stop_trading').  The calls of generateAndProcessTrade that
\* are suspended when the session stops are counted as stale from then on.
stop_trading(s) ==
  /\ s \in clients
  /\ lastOp' = event("stop_trading", s, NULL)
  /\ emitted' = reply("trading_stopped", TRUE, NULL)
  /\ IF notRunning
       THEN /\ saveResult' = "not_called"
            /\ UNCHANGED <<tradingControl, walletAddress, tradingInterval,
                           timers, inflight, walletFiles>>
       ELSE /\ \E sv \in (IF tradingControl.mode = "live" /\ walletAddress # NULL
                            THEN saveWalletState(walletAddress, SessionState)
                            ELSE NotSaved) :
                 /\ walletFiles' = sv.files
                 /\ saveResult' = sv.ret
            /\ timers' = clearInterval(timers, tradingInterval)
            /\ tradingInterval' = 0
            /\ tradingControl' = [tradingControl EXCEPT !.isRunning = FALSE]
            /\ walletAddress' = IF tradingControl.mode = "demo"
                                  THEN NULL ELSE walletAddress
            /\ inflight' = [fresh |-> 0,
                            stale |-> inflight.stale + inflight.fresh]
  /\ UNCHANGED <<clients, socketWallet, sessionVars>>
  /\ UNCHANGED outsideServer

\* ----------------------------------------------------------------------
\* The trade-generation interval
\* ----------------------------------------------------------------------

\* The setInterval callback of startMarketDataTrading fires for timer h and,
\* if trading is running in demo mode, generateAndProcessTrade runs up to
\* its first await (getTokensWithPriceData / getTokenPrice).
interval(h) ==
  /\ h \in timers
  /\ lastOp' = event("interval", NULL, NULL)
  /\ emitted' = NoReply
  /\ saveResult' = "not_called"
  /\ IF tradingControl.isRunning /\ tradingControl.mode = "demo"
       THEN /\ inflight.fresh + inflight.stale < MaxInFlight
            /\ inflight' = [inflight EXCEPT !.fresh = @ + 1]
       ELSE UNCHANGED inflight
  /\ UNCHANGED <<clients, socketWallet, tradingControl, walletAddress,
                 sessionVars, tradingInterval, timers, walletFiles>>
  /\ UNCHANGED outsideServer

\* A call that applies its trade to the portfolio without logging it
afterAwaitUnlogged(S, p) == updatePortfolio(S, demoTrade(p))

\* What a call does once its price requests have returned: nothing checks
\* tradingControl again.
afterAwait(S, p) == updatePortfolio([S EXCEPT !.trades = Append(@, demoTrade(p))],
                                    demoTrade(p))

\* A suspended call resumes and completes: the trade is pushed on
\* state.trades and applied to the portfolio.  k says whether the session
\* that started the call has been stopped since.
resumeTickServer(k, p, cap) ==
  /\ inflight[k] > 0
  /\ Len(trades) < cap
  /\ Len(profitLock.history) < cap
  /\ inflight' = [inflight EXCEPT ![k] = @ - 1]
  /\ Install(afterAwait(SessionState, p))
  /\ lastOp' = event("tick_trade", NULL, NULL)
  /\ emitted' = NoReply
  /\ saveResult' = "not_called"
  /\ UNCHANGED <<clients, socketWallet, tradingControl, walletAddress,
                 tradingInterval, timers, walletFiles>>

\* The same step when the price requests of the call are not followed.
resumeTick(k, p, cap) ==
  /\ resumeTickServer(k, p, cap)
  /\ UNCHANGED outsideServer

tick_trade(k, p) == resumeTick(k, p, MaxTrades)

\* A catch block that stops the interval
tickCatchStopping(active) == {}

\* What the catch block of generateAndProcessTrade changes: nothing.
tickCatch(active) == active

\* A suspended call resumes and throws before it pushes the trade; the
\* catch block logs the error and returns null.
tick_error(k) ==
  /\ inflight[k] > 0
  /\ inflight' = [inflight EXCEPT ![k] = @ - 1]
  /\ timers' = tickCatch(timers)
  /\ lastOp' = event("tick_error", NULL, NULL)
  /\ emitted' = NoReply
  /\ saveResult' = "not_called"
  /\ UNCHANGED <<clients, socketWallet, tradingControl, walletAddress,
                 sessionVars, tradingInterval, walletFiles>>
  /\ UNCHANGED outsideServer

\* ----------------------------------------------------------------------
\* Profit-lock endpoints
\* ----------------------------------------------------------------------

\* A withdrawal that is not capped by the locked balance
withdrawAmountUncapped(amount, lockedBalance) == amount

\* Math.min(parseFloat(amount), state.profitLock.lockedBalance)
withdrawAmountOf(amount, lockedBalance) ==
  IF amount < lockedBalance THEN amount ELSE lockedBalance

\* POST /api/profit-lock/withdraw; an amount of 0 also stands for a request
\* body without amount (both fail the `!amount` test).
withdraw(amount) ==
  LET withdrawAmount == withdrawAmountOf(amount, profitLock.lockedBalance)
  IN
  /\ lastOp' = event("withdraw", NULL, NULL)
  /\ saveResult' = "not_called"
  /\ IF amount <= 0 \/ withdrawAmount <= 0
       THEN /\ emitted' = reply("400", FALSE, NULL)
            /\ UNCHANGED <<profitLock, portfolio>>
       ELSE /\ profitLock' = [profitLock EXCEPT !.lockedBalance = @ - withdrawAmount]
            /\ portfolio' = [portfolio EXCEPT !.balance = @ + withdrawAmount]
            /\ emitted' = reply("200", TRUE, NULL)
  /\ UNCHANGED <<clients, socketWallet, tradingControl, walletAddress, trades,
                 mlStats, historicalData, tradingInterval, timers, inflight,
                 walletFiles>>
  /\ UNCHANGED outsideServer

\* POST /api/profit-lock/configure; each argument is <<>> when the request
\* body does not carry it.
configure(percentage, enabled) ==
  LET withEnabled == IF enabled # <<>>
                       THEN [profitLock EXCEPT !.enabled = enabled[1]]
                       ELSE profitLock
  IN
  /\ lastOp' = event("configure", NULL, NULL)
  /\ saveResult' = "not_called"
  /\ IF percentage # <<>> /\ (percentage[1] < 0 \/ percentage[1] > 100)
       THEN /\ profitLock' = withEnabled
            /\ emitted' = reply("400", FALSE, NULL)
     ELSE IF percentage # <<>>
       THEN /\ profitLock' = [withEnabled EXCEPT !.percentage = percentage[1]]
            /\ emitted' = reply("200", TRUE, NULL)
     ELSE /\ profitLock' = withEnabled
          /\ emitted' = reply("200", TRUE, NULL)
  /\ UNCHANGED <<clients, socketWallet, tradingControl, walletAddress,
                 portfolio, trades, mlStats, historicalData, tradingInterval,
                 timers, inflight, walletFiles>>
  /\ UNCHANGED outsideServer

\* ----------------------------------------------------------------------
\* DexConnector.getTokenPrice
\* ----------------------------------------------------------------------

\* Date.now() moves on.
advance(d) ==
  /\ clock + d <= MaxClock
  /\ clock' = clock + d
  /\ returned' = NoReturn
  /\ UNCHANGED <<priceCache, calls>>
  /\ UNCHANGED outsideDex

\* A cache whose entries never expire
cachedForever(mint, now) == priceCache[mint].has

\* "Check cache first": the mint has an entry younger than the TTL.
cached(mint, now) ==
  priceCache[mint].has /\ now - priceCache[mint].timestamp < priceCacheTTL

\* price !== null && price > 0
positive(price) == price # <<>> /\ price[1] > 0

\* A cache that also records the calls that found no price
updateCacheAlways(cache, mint, now, price, source) ==
  [cache EXCEPT ![mint] = entry(IF price = <<>> THEN 0 ELSE price[1], now, source)]

\* "Update Cache and Return": the cache after a call for mint that read
\* `now` ends with price from source.
updateCache(cache, mint, now, price, source) ==
  IF positive(price)
    THEN [cache EXCEPT ![mint] = entry(price[1], now, source)]
    ELSE cache

\* ... and what the call returns.
priceResult(price) == IF positive(price) THEN price ELSE <<>>

priceReturn(c, call, price, source, hit) ==
  [NoReturn EXCEPT !.done = TRUE, !.call = c, !.op = "getTokenPrice",
                   !.mint = call.mint, !.now = call.now, !.hit = hit,
                   !.queried = call.queried, !.price = price,
                   !.source = source]

tradeableReturn(c, call, tradeable, reason, quotes, sellOut) ==
  [NoReturn EXCEPT !.done = TRUE, !.call = c, !.op = "isTokenTradeable",
                   !.mint = call.mint, !.now = call.now,
                   !.queried = call.queried, !.price = call.price,
                   !.tradeable = tradeable, !.reason = reason,
                   !.quotes = quotes, !.sellIn = call.sellAmount,
                   !.sellOut = sellOut,
                   !.impliedSlippage =
                      IF sellOut = <<>> THEN 0 ELSE QUOTE_INPUT - sellOut[1]]

\* An isTokenTradeable that goes on without a price
noPriceIgnored(tokenPrice) == FALSE

\* isTokenTradeable: !tokenPrice || tokenPrice <= 0
noPrice(tokenPrice) == tokenPrice = <<>> \/ tokenPrice[1] <= 0

\* The getTokenPrice of call c has its price: it updates the cache and
\* returns, to its caller or into the isTokenTradeable that awaits it.
resolvePrice(c, price, source) ==
  LET call == calls[c]
      tokenPrice == priceResult(price)
  IN /\ priceCache' = updateCache(priceCache, call.mint, call.now, price, source)
     /\ IF call.op = "getTokenPrice"
          THEN /\ calls' = [calls EXCEPT ![c] = IdleCall]
               /\ returned' = priceReturn(c, call, tokenPrice, source, FALSE)
        ELSE IF noPrice(tokenPrice)
          THEN /\ calls' = [calls EXCEPT ![c] = IdleCall]
               /\ returned' = tradeableReturn(c, call, FALSE,
                                  "No price data available", 0, <<>>)
          ELSE /\ calls' = [calls EXCEPT ![c].stage = "buy",
                                         ![c].price = tokenPrice]
               /\ returned' = NoReturn

\* getTokenPrice(mintAddress) up to its first await: a cache hit returns
\* the cached price, a miss sends the Helius request (heliusConfigured is
\* always true: the constructor falls back to a built-in API key).
getTokenPrice(c, mint) ==
  /\ calls[c] = IdleCall
  /\ IF cached(mint, clock)
       THEN /\ returned' = priceReturn(c, [IdleCall EXCEPT !.mint = mint,
                                                           !.now = clock],
                                       <<priceCache[mint].price>>,
                                       priceCache[mint].source, TRUE)
            /\ UNCHANGED calls
       ELSE /\ calls' = [calls EXCEPT ![c] =
                           [IdleCall EXCEPT !.op = "getTokenPrice",
                                            !.mint = mint, !.now = clock,
                                            !.stage = "helius",
                                            !.queried = <<"Helius">>]]
            /\ returned' = NoReturn
  /\ UNCHANGED <<priceCache, clock>>
  /\ UNCHANGED outsideDex

\* The Helius request of call c ends.  Any price_per_token that is not
\* undefined becomes the price, and a price that is not null skips Jupiter.
heliusResponse(c, r) ==
  /\ calls[c].stage = "helius"
  /\ IF r.kind = "value"
       THEN resolvePrice(c, <<r.value>>, "Helius")
       ELSE /\ calls' = [calls EXCEPT ![c].stage = "jupiter",
                                      ![c].queried = Append(@, "Jupiter")]
            /\ returned' = NoReturn
            /\ UNCHANGED priceCache
  /\ UNCHANGED clock
  /\ UNCHANGED outsideDex

\* The Jupiter /price request of call c ends: with an exception (the price
\* stays null), without an entry for the mint (the direct URL is tried
\* next), or with the entry's price.
jupiterResponse(c, r) ==
  /\ calls[c].stage = "jupiter"
  /\ IF r.kind = "value"
       THEN resolvePrice(c, <<r.value>>, "Jupiter")
     ELSE IF r.kind = "error"
       THEN resolvePrice(c, <<>>, "Unknown")
     ELSE /\ calls' = [calls EXCEPT ![c].stage = "direct",
                                    ![c].queried = Append(@, "Jupiter-Direct")]
          /\ returned' = NoReturn
          /\ UNCHANGED priceCache
  /\ UNCHANGED clock
  /\ UNCHANGED outsideDex

\* The request to the direct Jupiter URL ends; only a truthy price is taken.
directResponse(c, r) ==
  /\ calls[c].stage = "direct"
  /\ IF r.kind = "value" /\ r.value # 0
       THEN resolvePrice(c, <<r.value>>, "Jupiter-Direct")
       ELSE resolvePrice(c, <<>>, "Unknown")
  /\ UNCHANGED clock
  /\ UNCHANGED outsideDex

\* ----------------------------------------------------------------------
\* DexConnector.getQuote and DexConnector.isTokenTradeable
\* ----------------------------------------------------------------------

\* What getQuote returns for the response of the /quote request: null when
\* the request throws or is answered with an error status, else
\* response.data, whatever it holds.
getQuoteResult(r) ==
  IF r.kind = "error" THEN [isNull |-> TRUE, outAmount |-> <<>>]
  ELSE IF r.kind = "missing" THEN [isNull |-> FALSE, outAmount |-> <<>>]
  ELSE [isNull |-> FALSE, outAmount |-> <<r.value>>]

quoteReturn(c, call, q) ==
  [NoReturn EXCEPT !.done = TRUE, !.call = c, !.op = "getQuote",
                   !.mint = call.mint, !.now = call.now,
                   !.quote = IF q.isNull THEN "null" ELSE "object",
                   !.outAmount = q.outAmount]

\* getQuote(USDC, mint, amount) up to its await
getQuote(c, mint, amount) ==
  /\ calls[c] = IdleCall
  /\ IF amount <= 0
       THEN /\ returned' = quoteReturn(c, [IdleCall EXCEPT !.mint = mint],
                                       getQuoteResult(failed))
            /\ UNCHANGED calls
       ELSE /\ calls' = [calls EXCEPT ![c] =
                           [IdleCall EXCEPT !.op = "getQuote", !.mint = mint,
                                            !.now = clock, !.stage = "quote"]]
            /\ returned' = NoReturn
  /\ UNCHANGED <<priceCache, clock>>
  /\ UNCHANGED outsideDex

\* The /quote request of a getQuote call ends.
quoteResponse(c, r) ==
  /\ calls[c].stage = "quote"
  /\ calls' = [calls EXCEPT ![c] = IdleCall]
  /\ returned' = quoteReturn(c, calls[c], getQuoteResult(r))
  /\ UNCHANGED <<priceCache, clock>>
  /\ UNCHANGED outsideDex

\* isTokenTradeable: !quote || !quote.outAmount || quote.outAmount <= 0
noQuote(q) == q.isNull \/ q.outAmount = <<>> \/ q.outAmount[1] <= 0

\* A slippage limit that excludes a loss of exactly 0.10
excessiveSlippageFrom(impliedSlippage) == impliedSlippage * 10 >= QUOTE_INPUT

\* isTokenTradeable: impliedSlippage > 0.10, with impliedSlippage counted
\* in millionths (1 - outAmount / 1000000 is over 0.10 exactly when
\* 1000000 - outAmount is over 100000)
excessiveSlippage(impliedSlippage) == impliedSlippage * 10 > QUOTE_INPUT

\* isTokenTradeable(tokenAddress) up to its first await, inside
\* getTokenPrice or, on a cache hit, at the buy quote
isTokenTradeable(c, mint) ==
  /\ calls[c] = IdleCall
  /\ calls' = [calls EXCEPT ![c] =
       IF cached(mint, clock)
         THEN [IdleCall EXCEPT !.op = "isTokenTradeable", !.mint = mint,
                               !.now = clock, !.stage = "buy",
                               !.price = <<priceCache[mint].price>>]
         ELSE [IdleCall EXCEPT !.op = "isTokenTradeable", !.mint = mint,
                               !.now = clock, !.stage = "helius",
                               !.queried = <<"Helius">>]]
  /\ returned' = NoReturn
  /\ UNCHANGED <<priceCache, clock>>
  /\ UNCHANGED outsideDex

\* The quote USDC -> token ends; the sell quote is asked for
\* parseInt(buyQuote.outAmount), outAmount being a string of digits.
buyQuoteResponse(c, r) ==
  LET buyQuote == getQuoteResult(r) IN
  /\ calls[c].stage = "buy"
  /\ IF noQuote(buyQuote)
       THEN /\ calls' = [calls EXCEPT ![c] = IdleCall]
            /\ returned' = tradeableReturn(c, calls[c], FALSE,
                               "Cannot get buy quote", 1, <<>>)
       ELSE /\ calls' = [calls EXCEPT ![c].stage = "sell",
                                      ![c].sellAmount = buyQuote.outAmount]
            /\ returned' = NoReturn
  /\ UNCHANGED <<priceCache, clock>>
  /\ UNCHANGED outsideDex

\* The quote token -> USDC ends.
sellQuoteResponse(c, r) ==
  LET sellQuote == getQuoteResult(r)
      impliedSlippage == QUOTE_INPUT - sellQuote.outAmount[1]
  IN
  /\ calls[c].stage = "sell"
  /\ calls' = [calls EXCEPT ![c] = IdleCall]
  /\ returned' =
       IF noQuote(sellQuote)
         THEN tradeableReturn(c, calls[c], FALSE, "Cannot get sell quote",
                              2, <<>>)
       ELSE IF excessiveSlippage(impliedSlippage)
         THEN tradeableReturn(c, calls[c], FALSE,
                  "Excessive slippage indicates low liquidity", 2,
                  sellQuote.outAmount)
       ELSE tradeableReturn(c, calls[c], TRUE, "none", 2, sellQuote.outAmount)
  /\ UNCHANGED <<priceCache, clock>>
  /\ UNCHANGED outsideDex

\* ----------------------------------------------------------------------
\* generateAndProcessTrade, price request by price request
\* ----------------------------------------------------------------------

\* One `await dexConnector.getTokenPrice(token.address)` of the suspended
\* call returns: the token is kept if price !== null && price > 0.
tickPrice(price) ==
  /\ inflight.fresh + inflight.stale > 0
  /\ tick.availableTokens # <<>>
  /\ tick' = [tick EXCEPT
                !.availableTokens = Tail(@),
                !.tokensWithPrices =
                   IF price # <<>> /\ price[1] > 0
                     THEN Append(@, token(Head(tick.availableTokens),
                                          price[1], "getTokenPrice"))
                     ELSE @]
  /\ UNCHANGED outsideTick

\* The fallback tokens with hardcoded prices
fallbackTokens(solPrice) ==
  <<token("SOL", solPrice, "hardcoded"), token("USDC", 100, "hardcoded")>>

\* The final check: at least 2 tokens are needed to trade
tokensOrFallback(tokensWithPrices, solPrice) ==
  IF Len(tokensWithPrices) < 2 THEN fallbackTokens(solPrice)
  ELSE tokensWithPrices

\* The call completes after its last price request: it picks two different
\* tokens, creates the trade, pushes it on state.trades, applies it to the
\* portfolio and emits new_trade.
tickComplete(k, p, solPrice, sourceIndex, targetIndex) ==
  LET availableTokens == tokensOrFallback(tick.tokensWithPrices, solPrice)
  IN
  /\ tick.availableTokens = <<>>
  /\ sourceIndex \in 1..Len(availableTokens)
  /\ targetIndex \in 1..Len(availableTokens)
  /\ targetIndex # sourceIndex
  /\ resumeTickServer(k, p, MaxTrades)
  /\ tick' = [NewTick EXCEPT
                !.trade = <<[sourceToken |-> availableTokens[sourceIndex],
                             targetToken |-> availableTokens[targetIndex],
                             profit |-> p]>>]
  /\ UNCHANGED <<dexVars, mlVars, tradeHistory, mlEnabled, loadVars, jobVars>>

\* ----------------------------------------------------------------------
\* POST /api/trading/result
\* ----------------------------------------------------------------------

\* Request bodies: complete trade details, a body without outputToken, and
\* an empty body.
ResultBodies ==
  {[signature |-> "sig", inputToken |-> "SOL", outputToken |-> "USDC",
    success |-> TRUE],
   [signature |-> "sig", inputToken |-> "SOL"],
   [success |-> TRUE]}

\* !signature || !inputToken || !outputToken
missingDetails(body) ==
  \/ "signature" \notin DOMAIN body
  \/ "inputToken" \notin DOMAIN body
  \/ "outputToken" \notin DOMAIN body

\* The first handler registered for POST /api/trading/result, the one that
\* answers every request.  state.tradeHistory.push throws a TypeError while
\* state.tradeHistory is undefined, and the catch block answers 500.
trading_result(body) ==
  /\ lastOp' = event("trading_result", NULL, NULL)
  /\ saveResult' = "not_called"
  /\ IF missingDetails(body)
       THEN /\ emitted' = reply("400", FALSE, NULL)
            /\ UNCHANGED tradeHistory
     ELSE IF tradeHistory = UNDEFINED
       THEN /\ emitted' = reply("500", FALSE, NULL)
            /\ UNCHANGED tradeHistory
     ELSE /\ tradeHistory' = Append(tradeHistory, body)
          /\ emitted' = reply("200", TRUE, NULL)
  /\ UNCHANGED <<clients, socketWallet, tradingControl, walletAddress,
                 sessionVars, tradingInterval, timers, inflight, walletFiles>>
  /\ UNCHANGED <<dexVars, mlVars, tick, mlEnabled, loadVars, jobVars>>

\* ----------------------------------------------------------------------
\* A live start that reads a wallet state file
\* ----------------------------------------------------------------------

\* A session as stop_trading saves it: one winning trade was logged.
SavedSession == afterAwait(marketDataReset(InitialSession), 500)

\* JSON.parse of a wallet state file that holds the fields `present`
parsedSnapshot(S, present) == [f \in present |-> S[f]]

\* walletState.<field>, undefined when the file does not have the field
fieldOf(walletState, f) ==
  IF f \in DOMAIN walletState THEN <<walletState[f]>> ELSE <<>>

\* loadWalletState, the five assignments after JSON.parse: only trades has
\* a default.
restoreFields(walletState) ==
  [portfolio |-> fieldOf(walletState, "portfolio"),
   trades |-> IF "trades" \in DOMAIN walletState
                THEN <<walletState.trades>> ELSE << <<>> >>,
   profitLock |-> fieldOf(walletState, "profitLock"),
   mlStats |-> fieldOf(walletState, "mlStats"),
   historicalData |-> fieldOf(walletState, "historicalData")]

\* startMarketDataTrading on a session R whose fields may be undefined.
\* Reading state.mlStats.accuracy or writing state.profitLock.lockedBalance
\* throws a TypeError when the field is undefined; the catch block returns
\* false and no interval is set.
marketDataStart(R) ==
  IF R.mlStats = <<>> THEN [state |-> R, intervalSet |-> FALSE]
  ELSE
    LET R1 == [R EXCEPT
                 !.portfolio = <<freshPortfolio(R.mlStats[1].accuracy)>>,
                 !.trades = << <<>> >>]
    IN IF R1.profitLock = <<>> THEN [state |-> R1, intervalSet |-> FALSE]
       ELSE [state |->
               [R1 EXCEPT !.profitLock =
                  <<[R1.profitLock[1] EXCEPT !.lockedBalance = 0,
                                             !.totalLocked = 0]>>],
             intervalSet |-> TRUE]

\* start_trading in live mode, for a socket with a wallet, on the session
\* of a process that has not traded yet.  The value that
\* startMarketDataTrading returns is not looked at: trading_started is
\* emitted with success in every case.
liveStarted(file) ==
  LET loaded == IF file = NoSnapshot
                  THEN definedSession(liveFresh(InitialSession))
                  ELSE restoreFields(file[1])
      started == marketDataStart(loaded)
  IN [op |-> "start_trading", state |-> started.state,
      intervalSet |-> started.intervalSet,
      emitted |-> reply("trading_started", TRUE, "live")]

\* A wallet state file is on disk before the process starts.
storeSnapshot(S, present) ==
  /\ restored.op = "none"
  /\ snapshot' = <<parsedSnapshot(S, present)>>
  /\ UNCHANGED restored
  /\ UNCHANGED outsideLoad

liveStart ==
  /\ restored.op = "none"
  /\ restored' = liveStarted(snapshot)
  /\ UNCHANGED snapshot
  /\ UNCHANGED outsideLoad

\* The process ends and is started again; the files stay.
restart ==
  /\ restored.op # "none"
  /\ restored' = NotStarted
  /\ UNCHANGED snapshot
  /\ UNCHANGED outsideLoad

\* ----------------------------------------------------------------------
\* Client commands: toggle_ml, POST /api/ml/toggle, trade_executed
\* ----------------------------------------------------------------------

\* data.enabled of a toggle request: <<>> when the request has none
EnabledInputs == {<<>>, <<TRUE>>, <<FALSE>>}

\* socket.on('toggle_ml'): the flag of the request, or the opposite of the
\* current flag; only state.mlEnabled is written.
toggle_ml(s, enabled) ==
  /\ s \in clients
  /\ mlEnabled' = IF enabled # <<>> THEN enabled[1] ELSE ~mlEnabled
  /\ lastOp' = event("toggle_ml", s, NULL)
  /\ emitted' = reply("ml_toggled", TRUE, NULL)
  /\ saveResult' = "not_called"
  /\ UNCHANGED <<clients, socketWallet, tradingControl, walletAddress,
                 sessionVars, tradingInterval, timers, inflight, walletFiles>>
  /\ UNCHANGED mlVars
  /\ UNCHANGED outsideToggle

\* POST /api/ml/toggle: 400 without `enabled`, else state.mlEnabled is set
\* and handed to mlBridge.setEnabled.
ml_toggle(enabled) ==
  /\ lastOp' = event("ml_toggle", NULL, NULL)
  /\ saveResult' = "not_called"
  /\ IF enabled = <<>>
       THEN /\ emitted' = reply("400", FALSE, NULL)
            /\ UNCHANGED <<mlEnabled, mlVars>>
       ELSE /\ mlEnabled' = enabled[1]
            /\ mlBridge' = [mlBridge EXCEPT !.enabled = enabled[1]]
            /\ mlReturned' = mlCall("setEnabled", enabled[1], FALSE, <<>>, <<>>)
            /\ emitted' = reply("200", TRUE, NULL)
  /\ UNCHANGED <<clients, socketWallet, tradingControl, walletAddress,
                 sessionVars, tradingInterval, timers, inflight, walletFiles>>
  /\ UNCHANGED outsideToggle

\* A trade_executed that takes a result for a trade in any status
anyStatus(trade) == TRUE

\* trade.status === 'prepared'
preparedOnly(trade) == trade.status = "prepared"

\* The ids of the logged trades are distinct; a trade is named by its place
\* in state.trades, and 0 is an id that no logged trade has.
ResultIds == 0..MaxTrades

\* updateMLStats(prediction, success) on session S
updateMLStats(S, prediction, success) ==
  LET predictions == S.mlStats.predictions + 1
      correctPredictions ==
        S.mlStats.correctPredictions
          + (IF (prediction = 1) = success THEN 1 ELSE 0)
      accuracy == (correctPredictions * 100) \div predictions
  IN [S EXCEPT !.mlStats = [predictions |-> predictions,
                            correctPredictions |-> correctPredictions,
                            accuracy |-> accuracy],
               !.portfolio.mlAccuracy = accuracy]

\* The trade after a result was applied to it: no profit on failure
executedTrade(trade, success) ==
  [trade EXCEPT
     !.status = IF success THEN "executed_success" ELSE "executed_failure",
     !.success = success,
     !.profit = IF success THEN @ ELSE 0]

\* trade.predictionDetails || {prediction: trade.mlScore > 50 ? 1 : 0}
predictionOf(trade) ==
  IF "predictionDetails" \in DOMAIN trade THEN trade.predictionDetails
  ELSE [prediction |-> IF "mlScore" \in DOMAIN trade /\ trade.mlScore > 50
                         THEN 1 ELSE 0]

\* socket.on('trade_executed'): a result for an unknown id is logged, a
\* result for a trade that is not 'prepared' is dropped, any other result
\* is written on the trade and applied to the portfolio, to state.mlStats
\* and, when state.mlEnabled, to the MLBridge.
trade_executed(s, tradeId, success) ==
  /\ s \in clients
  /\ lastOp' = [name |-> "trade_executed", socket |-> s, mode |-> NULL,
                tradeId |-> tradeId]
  /\ emitted' = NoReply
  /\ saveResult' = "not_called"
  /\ IF tradeId \notin 1..Len(trades)
       THEN UNCHANGED <<sessionVars, mlVars>>
     ELSE IF ~preparedOnly(trades[tradeId])
       THEN UNCHANGED <<sessionVars, mlVars>>
     ELSE
       LET trade == executedTrade(trades[tradeId], success)
           prediction == predictionOf(trade)
           S1 == updatePortfolio([SessionState EXCEPT !.trades[tradeId] = trade],
                                 trade)
           learnt == tradeWith(tradeId, success, prediction)
       IN /\ Len(profitLock.history) < MaxTrades
          /\ Install(updateMLStats(S1, prediction.prediction, success))
          /\ IF mlEnabled
               THEN \E accuracy \in
                         IF learned(mlBridge, learnt, defaultMLAccuracy).trained
                           THEN TrainedAccuracies ELSE {defaultMLAccuracy} :
                      /\ mlBridge' = learned(mlBridge, learnt, accuracy).bridge
                      /\ mlReturned' =
                           mlCall("learnFromTrade",
                                  learned(mlBridge, learnt, accuracy).result,
                                  learned(mlBridge, learnt, accuracy).trained,
                                  <<>>, <<learnt>>)
               ELSE UNCHANGED mlVars
  /\ UNCHANGED <<clients, socketWallet, tradingControl, walletAddress,
                 tradingInterval, timers, inflight, walletFiles>>
  /\ UNCHANGED <<mlEnabled>>
  /\ UNCHANGED outsideToggle

\* The balance of the `portfolio` message: state.portfolio.balance in the
\* one that follows a withdrawal, state.portfolio.value in the ones that
\* sendInitialState and updatePortfolio emit.
sentBalance ==
  IF lastOp.name = "withdraw" /\ emitted.success THEN portfolio.balance
  ELSE portfolio.value

\* What left the profit lock since the session started
totalWithdrawn == profitLock.totalLocked - profitLock.lockedBalance

\* ----------------------------------------------------------------------
\* TradeExecutor: start, stop and the processTradingJobs loop
\* ----------------------------------------------------------------------

\* settings.maxTrades of the job of the one user
MaxTradesSettings == {1, 2, 3}

\* The job is skipped by a pass: not active, traded less than
\* settings.tradeInterval ago, or maxTrades reached.
skipped(job, now) ==
  \/ ~job.active
  \/ now - job.lastTradeTime < job.tradeInterval
  \/ job.trades >= job.maxTrades

\* processTradingJobs(): it returns at once when the executor is not
\* running; else it goes through the jobs and ends with its setTimeout of
\* 5 seconds, whatever isRunning is by then.  No await of a pass waits for
\* I/O (getUserBalance is synchronous, executeTrade awaits only
\* getTradingWallet), so a pass runs to its setTimeout before the next
\* timer or call is handled.  sufficient is whether the available balance
\* covers settings.tradeSize, success what the strategy returned.
processTradingJobs(E, sufficient, success) ==
  IF ~E.isRunning THEN E
  ELSE
    LET traded == /\ E.tradingJobs # <<>>
                  /\ ~skipped(E.tradingJobs[1], clock)
                  /\ sufficient
                  /\ success
        E1 == IF traded
                THEN [E EXCEPT !.tradingJobs =
                        <<[@[1] EXCEPT !.lastTradeTime = clock,
                                       !.trades = @ + 1]>>]
                ELSE E
    IN [E1 EXCEPT !.timeouts = @ + 1]

\* addTradingJob(userWalletAddress, settings) with a tradeInterval of 0
addTradingJob(maxTrades) ==
  /\ tradeExecutor' =
       [tradeExecutor EXCEPT
          !.tradingJobs = <<[maxTrades |-> maxTrades, tradeInterval |-> 0,
                             lastTradeTime |-> 0, active |-> TRUE,
                             trades |-> 0]>>,
          !.lastCall = "addTradingJob"]
  /\ UNCHANGED outsideExecutor

\* removeTradingJob(userWalletAddress)
removeTradingJob ==
  /\ tradeExecutor' = [tradeExecutor EXCEPT !.tradingJobs = <<>>,
                                            !.lastCall = "removeTradingJob"]
  /\ UNCHANGED outsideExecutor

\* start(): a no-op while isRunning, else the first pass runs.
executorStart(sufficient, success) ==
  /\ tradeExecutor.timeouts < MaxLoops
  /\ tradeExecutor' =
       IF tradeExecutor.isRunning
         THEN [tradeExecutor EXCEPT !.lastCall = "start"]
         ELSE processTradingJobs([tradeExecutor EXCEPT !.isRunning = TRUE,
                                                       !.lastCall = "start"],
                                 sufficient, success)
  /\ UNCHANGED outsideExecutor

\* stop(): isRunning = false; the setTimeout of the last pass stays.
executorStop ==
  /\ tradeExecutor' = [tradeExecutor EXCEPT !.isRunning = FALSE,
                                            !.lastCall = "stop"]
  /\ UNCHANGED outsideExecutor

\* A setTimeout of processTradingJobs fires.
timeoutFires(sufficient, success) ==
  /\ tradeExecutor.timeouts > 0
  /\ tradeExecutor' =
       processTradingJobs([tradeExecutor EXCEPT !.timeouts = @ - 1,
                                                !.lastCall = "setTimeout"],
                          sufficient, success)
  /\ UNCHANGED outsideExecutor

\* ----------------------------------------------------------------------
\* WalletManager: the balance of one user
\* ----------------------------------------------------------------------

\* Amounts of deposits, trades and withdrawals, in cents
ManagerAmounts == {5000, 10000}

managerReply(op, ok, message) ==
  [op |-> op, success |-> ok, message |-> message]

\* amount * 1.02, the output of the simulated trade
expectedOutput(amount) == (amount * 102) \div 100

\* !userBalance || userBalance.available < amount
insufficient(userBalances, amount) ==
  userBalances = <<>> \/ userBalances[1].available < amount

\* createTradingWallet(userWalletAddress); history is the length of the
\* trades list of the balance.
createTradingWallet ==
  /\ walletManager' =
       IF walletManager.tradingWallets
         THEN [walletManager EXCEPT
                 !.returned = managerReply("createTradingWallet", TRUE,
                                           "Trading wallet already exists")]
         ELSE [walletManager EXCEPT
                 !.tradingWallets = TRUE,
                 !.userBalances =
                    IF @ = <<>>
                      THEN <<[deposited |-> 0, available |-> 0, history |-> 0]>>
                      ELSE @,
                 !.returned = managerReply("createTradingWallet", TRUE,
                                           "New trading wallet created")]
  /\ UNCHANGED outsideManager

\* processDeposit(userWalletAddress, amount, signature), from the moment
\* connection.getTransaction has returned; found is whether it returned a
\* transaction.
processDeposit(amount, found) ==
  /\ walletManager.userBalances # <<>>
       => walletManager.userBalances[1].history < MaxHistory
  /\ walletManager' =
       IF ~found
         THEN [walletManager EXCEPT
                 !.returned = managerReply("processDeposit", FALSE,
                                           "Transaction not found")]
       ELSE IF ~walletManager.tradingWallets
         THEN [walletManager EXCEPT
                 !.returned = managerReply("processDeposit", FALSE,
                                           "Trading wallet not found")]
       ELSE [walletManager EXCEPT
               !.userBalances =
                  <<[@[1] EXCEPT !.deposited = @ + amount,
                                 !.available = @ + amount,
                                 !.history = @ + 1]>>,
               !.returned = managerReply("processDeposit", TRUE,
                                         "Deposit processed successfully")]
  /\ UNCHANGED outsideManager

\* executeTrade and processWithdrawal up to their await: the balance check,
\* then the call is suspended at `await this.getTradingWallet(...)`.
callBegun(M, c, op, amount) ==
  IF insufficient(M.userBalances, amount)
    THEN [M EXCEPT !.returned = managerReply(op, FALSE, "Insufficient balance")]
    ELSE [M EXCEPT !.calls[c] = [op |-> op, amount |-> amount],
                   !.returned = managerReply(op, TRUE, "await getTradingWallet")]

\* executeTrade(userWalletAddress, fromToken, toToken, amount) is called.
executeTrade(c, amount) ==
  /\ walletManager.calls[c] = NoManagerCall
  /\ walletManager' = callBegun(walletManager, c, "executeTrade", amount)
  /\ UNCHANGED outsideManager

\* processWithdrawal(userWalletAddress, amount) is called.
processWithdrawal(c, amount) ==
  /\ walletManager.calls[c] = NoManagerCall
  /\ walletManager' = callBegun(walletManager, c, "processWithdrawal", amount)
  /\ UNCHANGED outsideManager

\* The balance after the update of the call that resumes
balanceAfter(userBalance, call) ==
  IF call.op = "executeTrade"
    THEN [userBalance EXCEPT
            !.available = @ - call.amount + expectedOutput(call.amount),
            !.history = @ + 1]
    ELSE [userBalance EXCEPT !.available = @ - call.amount,
                             !.deposited = @ - call.amount,
                             !.history = @ + 1]

\* getTradingWallet returns to a suspended call, which updates the balance
\* without another check; when it throws (decrypted is FALSE: the key could
\* not be decrypted), the catch block of the call answers with a failure.
tradingWalletReturns(c, decrypted) ==
  LET call == walletManager.calls[c]
  IN
  /\ call # NoManagerCall
  /\ walletManager.userBalances[1].history < MaxHistory
  /\ walletManager' =
       IF ~decrypted
         THEN [walletManager EXCEPT
                 !.calls[c] = NoManagerCall,
                 !.returned =
                    managerReply(call.op, FALSE,
                                 IF call.op = "executeTrade"
                                   THEN "Failed to execute trade"
                                   ELSE "Failed to process withdrawal")]
         ELSE [walletManager EXCEPT
                 !.calls[c] = NoManagerCall,
                 !.userBalances = <<balanceAfter(@[1], call)>>,
                 !.returned =
                    managerReply(call.op, TRUE,
                                 IF call.op = "executeTrade"
                                   THEN "Trade executed successfully"
                                   ELSE "Withdrawal processed successfully")]
  /\ UNCHANGED outsideManager

\* ----------------------------------------------------------------------
\* Specification
\* ----------------------------------------------------------------------
Next ==
  \/ \E s \in Sockets : connection(s)
  \/ \E s \in Sockets, a \in Wallets \cup {NULL} : connect_wallet(s, a)
  \/ \E s \in Sockets : disconnect_wallet(s)
  \/ \E s \in Sockets : disconnect(s)
  \/ \E s \in Sockets, m \in Modes \cup {UNDEFINED}, now \in Times :
        start_trading(s, m, now)
  \/ \E s \in Sockets : stop_trading(s)
  \/ \E h \in TimerIds : interval(h)
  \/ \E k \in {"fresh", "stale"}, p \in Profits : tick_trade(k, p)
  \/ \E k \in {"fresh", "stale"} : tick_error(k)

\* A demo session with the profit-lock endpoints.
LedgerNext ==
  \/ \E s \in Sockets : connection(s)
  \/ \E s \in Sockets, now \in Times : start_trading(s, "demo", now)
  \/ \E s \in Sockets : stop_trading(s)
  \/ \E h \in TimerIds : interval(h)
  \/ \E k \in {"fresh", "stale"}, p \in Profits : tick_trade(k, p)
  \/ \E amount \in WithdrawAmounts : withdraw(amount)
  \/ \E percentage \in {<<>>} \cup {<<x>> : x \in Percentages},
        enabled \in {<<>>, <<TRUE>>, <<FALSE>>} :
        configure(percentage, enabled)
  \/ \E body \in ResultBodies : trading_result(body)

Spec == Init /\ [][Next]_vars

LedgerSpec == Init /\ [][LedgerNext]_vars

\* One demo session whose interval keeps pushing winning trades.
TradeLogNext ==
  \/ \E s \in Sockets : connection(s)
  \/ \E s \in Sockets, now \in Times : start_trading(s, "demo", now)
  \/ \E h \in TimerIds : interval(h)
  \/ \E p \in {500} : resumeTick("fresh", p, MaxLog)

TradeLogSpec == Init /\ [][TradeLogNext]_vars

\* A live start over the wallet state files a process can find.
LoadNext ==
  \/ \E S \in {InitialSession, SavedSession}, present \in SUBSET SnapshotFields :
        storeSnapshot(S, present)
  \/ liveStart
  \/ restart

LoadSpec == Init /\ [][LoadNext]_vars

\* A demo session with the commands a client sends about ML and about the
\* trades it executed.
ClientNext ==
  \/ \E s \in Sockets : connection(s)
  \/ \E s \in Sockets, now \in Times : start_trading(s, "demo", now)
  \/ \E s \in Sockets : stop_trading(s)
  \/ \E h \in TimerIds : interval(h)
  \/ \E k \in {"fresh", "stale"}, p \in Profits : tick_trade(k, p)
  \/ \E s \in Sockets, enabled \in EnabledInputs : toggle_ml(s, enabled)
  \/ \E enabled \in EnabledInputs : ml_toggle(enabled)
  \/ \E s \in Sockets, tradeId \in ResultIds, success \in BOOLEAN :
        trade_executed(s, tradeId, success)

ClientSpec == Init /\ [][ClientNext]_vars

\* The TradeExecutor and the callers of start, stop and addTradingJob.
ExecutorNext ==
  \/ \E maxTrades \in MaxTradesSettings : addTradingJob(maxTrades)
  \/ removeTradingJob
  \/ \E sufficient \in BOOLEAN, success \in BOOLEAN :
        executorStart(sufficient, success)
  \/ executorStop
  \/ \E sufficient \in BOOLEAN, success \in BOOLEAN :
        timeoutFires(sufficient, success)

ExecutorSpec == Init /\ [][ExecutorNext]_vars

\* The WalletManager and callers that do not wait for one call to return
\* before they make the next.
ManagerNext ==
  \/ createTradingWallet
  \/ \E amount \in ManagerAmounts, found \in BOOLEAN :
        processDeposit(amount, found)
  \/ \E c \in ManagerCalls, amount \in ManagerAmounts : executeTrade(c, amount)
  \/ \E c \in ManagerCalls, amount \in ManagerAmounts :
        processWithdrawal(c, amount)
  \/ \E c \in ManagerCalls, decrypted \in BOOLEAN :
        tradingWalletReturns(c, decrypted)

ManagerSpec == Init /\ [][ManagerNext]_vars

\* The DexConnector and the callers of its price and quote methods.
PriceNext ==
  \/ \E d \in Advances : advance(d)
  \/ \E c \in Calls, mint \in Mints : getTokenPrice(c, mint)
  \/ \E c \in Calls, r \in HeliusResponses : heliusResponse(c, r)
  \/ \E c \in Calls, r \in JupiterResponses : jupiterResponse(c, r)
  \/ \E c \in Calls, r \in DirectResponses : directResponse(c, r)
  \/ \E c \in Calls, mint \in Mints, amount \in {0, QUOTE_INPUT} :
        getQuote(c, mint, amount)
  \/ \E c \in Calls, r \in QuoteResponses : quoteResponse(c, r)
  \/ \E c \in Calls, mint \in Mints : isTokenTradeable(c, mint)
  \/ \E c \in Calls, r \in QuoteResponses : buyQuoteResponse(c, r)
  \/ \E c \in Calls, r \in QuoteResponses : sellQuoteResponse(c, r)

PriceSpec == Init /\ [][PriceNext]_vars

\* The MLBridge and the callers of its methods.
MLNext ==
  \/ \E enabled \in BOOLEAN : setEnabled(enabled)
  \/ \E data \in Data : predict(data)
  \/ \E trade \in Trades :
        mlBridge.totalPredictions < MaxLearn /\ learnFromTrade(trade)
  \/ \E batch \in Batches :
        /\ mlBridge.trainingData + Len(batch) <= MaxBatchTrades
        /\ learnFromTrades(batch)
  \/ train

MLSpec == Init /\ [][MLNext]_vars

\* An MLBridge that keeps learning from failed trades it had predicted to
\* succeed.
WrongTrades ==
  {tradeWith(1, FALSE, [prediction |-> 1, contributingFactors |-> factors]) :
     factors \in FactorLists}
WeightNext ==
  \/ \E data \in {[profitPercentage |-> 250, slippage |-> 50]} : predict(data)
  \/ \E trade \in WrongTrades :
        mlBridge.totalPredictions < MaxWeightEvents /\ learnFromTrade(trade)
  \/ \E batch \in LargeBatches :
        /\ mlBridge.trainingData + Len(batch) <= MaxTraining
        /\ learnFromTrades(batch)
  \/ train

WeightSpec == Init /\ [][WeightNext]_vars

\* An MLBridge that learns from winning trades, with and without a
\* prediction record.
WinningTrades ==
  {bareTrade(1, TRUE), tradeWith(1, TRUE, [prediction |-> 1])}
RetrainNext ==
  \E trade \in WinningTrades :
     mlBridge.totalPredictions < MaxRetrainEvents /\ learnFromTrade(trade)

RetrainSpec == Init /\ [][RetrainNext]_vars

\* A demo session whose generateAndProcessTrade calls are followed price
\* request by price request.
TickNext ==
  \/ \E s \in Sockets : connection(s)
  \/ \E s \in Sockets, now \in Times : start_trading(s, "demo", now)
  \/ \E s \in Sockets : stop_trading(s)
  \/ \E h \in TimerIds : interval(h)
  \/ \E price \in TokenPrices : tickPrice(price)
  \/ \E k \in {"fresh", "stale"}, p \in Profits,
        solPrice \in FallbackSolPrices, sourceIndex \in 1..3,
        targetIndex \in 1..3 :
        tickComplete(k, p, solPrice, sourceIndex, targetIndex)

TickSpec == Init /\ [][TickNext]_vars

\* ----------------------------------------------------------------------
\* Properties
\* ----------------------------------------------------------------------

\* A session is Live when trading is running in mode 'live'; it is Idle
\* when trading is not running.
Live == tradingControl.isRunning /\ tradingControl.mode = "live"

\* The file that holds the saved state of wallet w.
fileOf(w) == walletFiles[walletHash(w)]

\* The step handles start_trading from socket s with data.mode = m.
startsFrom(s, m) ==
  lastOp' = event("start_trading", s, m)

\* The step handles an accepted start: trading was not running, and a
\* 'live' request comes from a socket that has a wallet.
acceptedStart(s, m) ==
  /\ startsFrom(s, m)
  /\ ~tradingControl.isRunning
  /\ (m = "live" => socketWallet[s] \in Wallets)

\* C1: in every reachable state, a Live session has an identity: the live
\* wallet address is not null.
C1_LiveHasIdentity == Live => walletAddress # NULL

\* C2: a call of generateAndProcessTrade that was suspended when the
\* session was stopped appends no trade and changes neither the portfolio
\* nor the profit lock when it resumes, also after a new session started.
C2_StoppedTickMutatesNothing ==
  [][inflight'.stale < inflight.stale
       => UNCHANGED <<trades, portfolio, profitLock>>]_vars

\* C3: a Live session started for a wallet whose state was saved has the
\* saved balance, the saved number of trades and the saved lockedBalance.
C3_LiveRestartRestores ==
  [][\A s \in Sockets :
       (acceptedStart(s, "live") /\ fileOf(socketWallet[s]).parses)
         => LET saved == fileOf(socketWallet[s]).data IN
            /\ portfolio'.value = saved.portfolio.value
            /\ portfolio'.balance = saved.portfolio.balance
            /\ Len(trades') = Len(saved.trades)
            /\ profitLock'.lockedBalance = saved.profitLock.lockedBalance]_vars

\* C4: stop_trading on a Live session calls saveWalletState for the
\* session's wallet, which (unless the write throws) leaves the current
\* portfolio, trades, profit lock and ML statistics in that wallet's file;
\* afterwards trading is not running and no interval timer is active.
C4_StopPersistsLive ==
  [][(lastOp'.name = "stop_trading" /\ Live)
       => /\ saveResult' \in {"saved", "write_failed"}
          /\ saveResult' = "saved"
               => walletFiles'[walletHash(walletAddress)] = writtenFile(SessionState)
          /\ ~tradingControl'.isRunning
          /\ timers' = {}]_vars

\* C5: a start_trading that is rejected (mode 'live' from a socket without
\* a wallet) or ignored (trading already running) leaves the trading
\* control (mode, running flag, start time), the live wallet, the
\* portfolio, the trades, the profit lock and the interval timer unchanged;
\* a request that passes the wallet check while trading is running is
\* answered with the current mode.
C5_RejectedStartChangesNothing ==
  [][\A s \in Sockets, m \in Modes \cup {UNDEFINED} :
       LET rejected == m = "live" /\ socketWallet[s] \notin Wallets
           ignored == ~rejected /\ tradingControl.isRunning
       IN (startsFrom(s, m) /\ (rejected \/ ignored))
            => /\ UNCHANGED <<tradingControl, walletAddress, portfolio, trades,
                              profitLock, tradingInterval, timers>>
               /\ ignored => emitted' = reply("trading_started", TRUE,
                                              tradingControl.mode)]_vars

\* C5 witness: a 'live' request was ignored by a running demo session and
\* answered with mode 'demo'.
C5_Witness ==
  /\ lastOp.name = "start_trading" /\ lastOp.mode = "live"
  /\ tradingControl.isRunning /\ tradingControl.mode = "demo"
  /\ emitted = reply("trading_started", TRUE, "demo")
  /\ trades # <<>>

\* C6: a stop_trading that directly follows a stop_trading changes nothing
\* of the trading control, the timers, the portfolio, the trades, the
\* profit lock or the wallet files, and is answered like the first.
C6_StopTwiceIsStopOnce ==
  [][(lastOp.name = "stop_trading" /\ lastOp'.name = "stop_trading")
       => /\ UNCHANGED <<tradingControl, walletAddress, tradingInterval,
                         timers, sessionVars, walletFiles>>
          /\ emitted' = emitted]_vars

\* C6 witness: stop_trading found a Live session with a wallet already
\* stopped (the stop that stopped it called saveWalletState, this one
\* did not).
C6_Witness ==
  /\ lastOp.name = "stop_trading"
  /\ ~tradingControl.isRunning /\ tradingControl.mode = "live"
  /\ walletAddress # NULL
  /\ saveResult = "not_called"
  /\ fileOf(walletAddress).parses

C8_LiveStartWithoutSnapshot ==
  [][\A s \in Sockets :
       (acceptedStart(s, "live") /\ ~fileOf(socketWallet[s]).parses)
         => /\ tradingControl'.isRunning /\ tradingControl'.mode = "live"
            /\ portfolio'.value = 0
            /\ portfolio'.balance = 0
            /\ mlStats' = mlStats]_vars

\* C9: when the saveWalletState call of a stop_trading fails to write the
\* state file, the caller is not answered trading_stopped with success.
C9_FailedSaveIsReported ==
  (lastOp.name = "stop_trading" /\ saveResult = "write_failed")
    => ~(emitted.event = "trading_stopped" /\ emitted.success)

\* C10: a generateAndProcessTrade call that throws leaves the trading
\* control (mode, running flag), the interval handle and the set of active
\* timers unchanged and adds no trade; while trading is running the handle
\* is an active timer, so the interval fires again.
C10_FailedTickKeepsSession ==
  [][lastOp'.name = "tick_error"
       => /\ UNCHANGED <<tradingControl, tradingInterval, timers, sessionVars>>
          /\ tradingControl'.isRunning => tradingInterval' \in timers']_vars

\* C10 witness: a call failed in a running demo session that already holds
\* a trade, and the interval is still set.
C10_Witness ==
  /\ lastOp.name = "tick_error"
  /\ tradingControl.isRunning /\ tradingControl.mode = "demo"
  /\ tradingInterval \in timers
  /\ trades # <<>>

\* C11: lockedBalance <= totalLocked in every state, and no step other
\* than a session start (which resets or reloads the profit lock) lowers
\* totalLocked: trades, withdrawals and configure requests never do.
C11_LockTotals ==
  /\ [](profitLock.lockedBalance <= profitLock.totalLocked)
  /\ [][lastOp'.name # "start_trading"
          => profitLock'.totalLocked >= profitLock.totalLocked]_vars

\* C11 witness: part of the locked profit has been withdrawn and a later
\* trade locked more.
C11_Witness ==
  /\ lastOp.name = "tick_trade"
  /\ profitLock.lockedBalance > 0
  /\ profitLock.lockedBalance < profitLock.totalLocked
  /\ Len(profitLock.history) = 2

\* C12: a withdrawal of x > 0 from a lockedBalance > 0 lowers lockedBalance
\* by min(x, lockedBalance) and raises portfolio.balance by the same amount,
\* so their sum is unchanged; a request with amount <= 0 (or none), or with
\* lockedBalance 0, is answered 400 and changes none of balance,
\* lockedBalance, totalLocked.
C12_WithdrawMovesMin ==
  [][\A x \in WithdrawAmounts :
       withdraw(x)
         => IF x > 0 /\ profitLock.lockedBalance > 0
              THEN LET moved == IF x < profitLock.lockedBalance
                                  THEN x ELSE profitLock.lockedBalance
                   IN /\ profitLock'.lockedBalance = profitLock.lockedBalance - moved
                      /\ portfolio'.balance = portfolio.balance + moved
                      /\ portfolio'.balance + profitLock'.lockedBalance
                           = portfolio.balance + profitLock.lockedBalance
                      /\ profitLock'.totalLocked = profitLock.totalLocked
                      /\ emitted'.success
              ELSE /\ portfolio'.balance = portfolio.balance
                   /\ profitLock'.lockedBalance = profitLock.lockedBalance
                   /\ profitLock'.totalLocked = profitLock.totalLocked
                   /\ emitted' = reply("400", FALSE, NULL)]_vars

\* C12 witness: a withdrawal larger than the locked balance was capped by
\* it: 2.50 were locked and three withdrawals of 1.00 moved all of it, and
\* no more, to the balance.
C12_Witness ==
  /\ lastOp.name = "withdraw"
  /\ emitted = reply("200", TRUE, NULL)
  /\ profitLock.lockedBalance = 0
  /\ profitLock.totalLocked = 250
  /\ portfolio.balance = StartingBalance + 250

\* C13: updatePortfolio adds the trade's profit to portfolio.value and to
\* totalPnL; with profit locking enabled and profit > 0 it adds
\* profit * percentage / 100 to lockedBalance and to totalLocked and appends
\* one entry to the lock history; otherwise it leaves all three unchanged.
\* From value 50.00 with 20% locking, a profit of 5.00 gives value 55.00,
\* totalPnL 5.00, lockedBalance 1.00, totalLocked 1.00.
C13_ApplyTrade ==
  [][lastOp'.name = "tick_trade"
       => LET trade == trades'[Len(trades')]
              locks == profitLock.enabled /\ trade.profit > 0
              lockAmount == (trade.profit * profitLock.percentage) \div 100
          IN /\ portfolio'.value = portfolio.value + trade.profit
             /\ portfolio'.totalPnL = portfolio.totalPnL + trade.profit
             /\ locks => /\ profitLock'.lockedBalance
                              = profitLock.lockedBalance + lockAmount
                         /\ profitLock'.totalLocked
                              = profitLock.totalLocked + lockAmount
                         /\ Len(profitLock'.history) = Len(profitLock.history) + 1
             /\ ~locks => profitLock' = profitLock
             /\ (/\ portfolio.value = 5000 /\ portfolio.totalPnL = 0
                 /\ profitLock.lockedBalance = 0 /\ profitLock.totalLocked = 0
                 /\ profitLock.enabled /\ profitLock.percentage = 20
                 /\ trade.profit = 500)
                  => /\ portfolio'.value = 5500 /\ portfolio'.totalPnL = 500
                     /\ profitLock'.lockedBalance = 100
                     /\ profitLock'.totalLocked = 100]_vars

\* C13 witness: the demo session that started at 50.00 with 20% locking
\* has had one trade, of profit 5.00.
C13_Witness ==
  /\ lastOp.name = "tick_trade"
  /\ Len(trades) = 1 /\ trades[1].profit = 500
  /\ portfolio.value = 5500 /\ portfolio.totalPnL = 500
  /\ profitLock.percentage = 20
  /\ profitLock.lockedBalance = 100 /\ profitLock.totalLocked = 100
  /\ Len(profitLock.history) = 1

\* C14: state.trades never holds more than MAX_TRADES_IN_MEMORY trades.
C14_TradeLogCapped == Len(trades) <= MAX_TRADES_IN_MEMORY

\* C15: a getTokenPrice that finds a cache entry younger than 60 s returns
\* that entry's price and source and sends no upstream request; one that
\* finds no entry, or an entry 60 s old or older, starts one refresh (a
\* single request to the first source), and a refresh that ends with a
\* price overwrites the mint's one cache entry with it.
C15_CacheWithinTTL ==
  [][/\ \A c \in Calls, m \in Mints :
          getTokenPrice(c, m)
            => IF priceCache[m].has /\ clock - priceCache[m].timestamp < 60000
                 THEN /\ returned'.done /\ returned'.hit
                      /\ returned'.price = <<priceCache[m].price>>
                      /\ returned'.source = priceCache[m].source
                      /\ returned'.queried = <<>>
                      /\ calls' = calls /\ priceCache' = priceCache
                 ELSE /\ ~returned'.done
                      /\ calls'[c].stage = "helius"
                      /\ calls'[c].queried = <<"Helius">>
                      /\ calls'[c].now = clock
                      /\ priceCache' = priceCache
     /\ (returned'.done /\ returned'.op = "getTokenPrice" /\ ~returned'.hit
           /\ returned'.price # <<>>)
          => priceCache'[returned'.mint]
               = entry(returned'.price[1], returned'.now, returned'.source)]_vars

\* C15 witness: a call returned the price that Jupiter had reported
\* 59999 ms earlier, from the cache.
C15_Witness ==
  /\ returned.done /\ returned.op = "getTokenPrice" /\ returned.hit
  /\ returned.price = <<160>> /\ returned.source = "Jupiter"
  /\ returned.now - priceCache[returned.mint].timestamp = 59999

\* C16: a getTokenPrice that misses the cache returns null only after it
\* has also asked Jupiter: Helius failing or reporting a non-positive price
\* does not keep Jupiter's price from being used.
C16_LowerSourceStillAsked ==
  (returned.done /\ returned.op = "getTokenPrice" /\ ~returned.hit
     /\ returned.price = <<>>)
    => \E i \in 1..Len(returned.queried) : returned.queried[i] = "Jupiter"

\* C17: getTokenPrice returns null or a price above 0, never 0 or less, and
\* a call that returns null leaves the price cache as it was.
C17_FailureNotCached ==
  /\ []((returned.done /\ returned.op = "getTokenPrice"
           /\ returned.price # <<>>) => returned.price[1] > 0)
  /\ [][(returned'.done /\ returned'.op = "getTokenPrice"
           /\ returned'.price = <<>>) => priceCache' = priceCache]_vars

\* C17 witness: Helius, Jupiter and the direct Jupiter URL all failed; the
\* call returned null and the cache has no entry for the mint.
C17_Witness ==
  /\ returned.done /\ returned.op = "getTokenPrice"
  /\ returned.price = <<>>
  /\ returned.queried = <<"Helius", "Jupiter", "Jupiter-Direct">>
  /\ ~priceCache[returned.mint].has

\* C18: a getQuote whose upstream answer carries no outAmount returns null,
\* as it does when the request fails.
C18_MalformedQuoteIsNull ==
  (returned.done /\ returned.op = "getQuote" /\ returned.outAmount = <<>>)
    => returned.quote = "null"

\* C19: isTokenTradeable asks for the sell quote with exactly the buy
\* quote's outAmount; with a sell quote of outAmount w it computes the
\* implied slippage 1 - w / 1000000 (here in millionths: 1000000 - w) and
\* reports tradeable exactly when it is at most 0.10, and otherwise not
\* tradeable for excessive slippage.
C19_SlippageLimit ==
  [][\A c \in Calls, v \in QuoteAmounts :
       /\ (buyQuoteResponse(c, answered(v)) /\ v > 0)
            => /\ calls'[c].stage = "sell"
               /\ calls'[c].sellAmount = <<v>>
       /\ (sellQuoteResponse(c, answered(v)) /\ v > 0)
            => /\ returned'.done /\ returned'.op = "isTokenTradeable"
               /\ returned'.sellIn = calls[c].sellAmount
               /\ returned'.impliedSlippage = 1000000 - v
               /\ returned'.tradeable <=> (1000000 - v) * 10 <= 1000000
               /\ ~returned'.tradeable
                    => returned'.reason
                         = "Excessive slippage indicates low liquidity"]_vars

\* C19 witness: the sell quote returned 0.90 USDC for the tokens that
\* 1 USDC bought, a loss of exactly 0.10, and the token was reported
\* tradeable.
C19_Witness ==
  /\ returned.done /\ returned.op = "isTokenTradeable"
  /\ returned.tradeable
  /\ returned.sellIn = <<899999>>
  /\ returned.sellOut = <<900000>>
  /\ returned.impliedSlippage = 100000

\* C20: an isTokenTradeable whose getTokenPrice resolves to null returns
\* tradeable false with reason 'No price data available' and has asked for
\* no quote (a call waiting for a quote always holds a price above 0); one
\* whose buy or sell quote fails or lacks outAmount returns tradeable false.
C20_NoPriceNoQuote ==
  /\ [](\A c \in Calls :
          calls[c].stage \in {"buy", "sell"}
            => calls[c].price # <<>> /\ calls[c].price[1] > 0)
  /\ []((returned.done /\ returned.op = "isTokenTradeable"
           /\ returned.price = <<>>)
          => /\ ~returned.tradeable
             /\ returned.reason = "No price data available"
             /\ returned.quotes = 0)
  /\ [][\A c \in Calls :
          LET unpriced ==
                \/ \E r \in HeliusResponses :
                     r.kind = "value" /\ r.value <= 0 /\ heliusResponse(c, r)
                \/ \E r \in JupiterResponses :
                     /\ r.kind = "error" \/ (r.kind = "value" /\ r.value <= 0)
                     /\ jupiterResponse(c, r)
                \/ \E r \in DirectResponses :
                     ~(r.kind = "value" /\ r.value > 0) /\ directResponse(c, r)
              unquoted ==
                \E r \in QuoteResponses :
                  /\ r.kind # "value" \/ r.value <= 0
                  /\ buyQuoteResponse(c, r) \/ sellQuoteResponse(c, r)
          IN /\ (calls[c].op = "isTokenTradeable" /\ unpriced)
                  => /\ returned'.done /\ ~returned'.tradeable
                     /\ returned'.reason = "No price data available"
                     /\ calls'[c] = IdleCall
             /\ unquoted
                  => /\ returned'.done /\ ~returned'.tradeable
                     /\ returned'.reason \in {"Cannot get buy quote",
                                              "Cannot get sell quote"}
                     /\ calls'[c] = IdleCall]_vars

\* C20 witness: every price source failed for the mint and isTokenTradeable
\* returned 'No price data available' without a quote request.
C20_Witness ==
  /\ returned.done /\ returned.op = "isTokenTradeable"
  /\ ~returned.tradeable
  /\ returned.reason = "No price data available"
  /\ returned.queried = <<"Helius", "Jupiter", "Jupiter-Direct">>
  /\ returned.quotes = 0

\* ----------------------------------------------------------------------
\* MLBridge properties
\* ----------------------------------------------------------------------

\* The counters of a scorer
counters(B) ==
  <<B.totalPredictions, B.correctPredictions, B.successfulTrades,
    B.failedTrades>>

\* C21: predict() changes neither the feature weights nor the total,
\* correct, success and failure counters, whether the scorer is enabled or
\* disabled, and every result of a disabled scorer carries isDisabled = true.
C21_PredictMutatesNothing ==
  [][\A data \in Data :
        predict(data)
          => /\ mlBridge'.featureImportance = mlBridge.featureImportance
             /\ counters(mlBridge') = counters(mlBridge)
             /\ ~mlBridge.enabled
                  => /\ "isDisabled" \in DOMAIN mlReturned'.result[1]
                     /\ mlReturned'.result[1].isDisabled = TRUE]_vars

\* C21 witness: predict() has returned a tagged result on a disabled scorer
\* that had counted a learning event and moved a weight before.
C21_Witness ==
  /\ mlReturned.op = "predict"
  /\ ~mlBridge.enabled
  /\ mlReturned.result[1].isDisabled = TRUE
  /\ mlBridge.totalPredictions > 0
  /\ mlBridge.featureImportance # featureImportance

\* C22: learnFromTrade on a disabled scorer leaves the feature weights, the
\* total and correct prediction counters and the accuracy unchanged, and
\* adds one to successfulTrades for a successful trade and one to
\* failedTrades for a failed one.
C22_DisabledLearnCounts ==
  [][\A trade \in Trades :
        (learnFromTrade(trade) /\ ~mlBridge.enabled)
          => /\ mlBridge'.featureImportance = mlBridge.featureImportance
             /\ mlBridge'.totalPredictions = mlBridge.totalPredictions
             /\ mlBridge'.correctPredictions = mlBridge.correctPredictions
             /\ mlBridge'.accuracy = mlBridge.accuracy
             /\ mlBridge' = counted(mlBridge, trade.success)]_vars

\* C23: every feature weight lies in [0.01, 0.5].
C23_WeightsInRange ==
  \A f \in Features :
    mlBridge.featureImportance[f] >= 1 /\ mlBridge.featureImportance[f] <= 50

\* C23 witness: wrong predictions have pushed one weight up to 0.5 and
\* another down to 0.01, and one more of each has left them there.
C23_Witness ==
  /\ mlBridge.featureImportance.profitPercentage = 50
  /\ mlBridge.featureImportance.trendAlignment = 1
  /\ mlBridge.totalPredictions = 21
  /\ mlBridge.failedTrades = 21

\* C24: a second learnFromTrade on the trade that the scorer has just learnt
\* from changes neither the counters, nor the accuracy, nor the feature
\* weights.
C24_LearnOnce ==
  [][\A trade \in Trades :
        (/\ learnFromTrade(trade)
         /\ "predictionDetails" \in DOMAIN trade
         /\ mlReturned.op = "learnFromTrade"
         /\ mlReturned.trade = <<trade>>
         /\ mlReturned.result = <<TRUE>>)
          => /\ counters(mlBridge') = counters(mlBridge)
             /\ mlBridge'.accuracy = mlBridge.accuracy
             /\ mlBridge'.featureImportance = mlBridge.featureImportance]_vars

\* C25: when an enabled scorer learns from a trade that carries the record
\* predict() has just returned, a wrong prediction moves the weight of every
\* feature whose weighted impact on it was not zero by 0.01 against the sign
\* of the impact, within [0.01, 0.5], and a right prediction moves no weight.
C25_WrongPredictionMovesWeights ==
  [][\A trade \in Trades :
        (/\ learnFromTrade(trade)
         /\ mlBridge.enabled
         /\ mlReturned.op = "predict"
         /\ "predictionDetails" \in DOMAIN trade
         /\ trade.predictionDetails = mlReturned.result[1])
          => LET engineeredData == engineerFeatures(mlReturned.data[1])
                 wrong == (trade.predictionDetails.prediction = 1)
                            # trade.success
             IN \A f \in Features :
                  mlBridge'.featureImportance[f] =
                    IF wrong
                      THEN keptWeight(mlBridge.featureImportance[f]
                             - Math_sign(weightedImpact(mlBridge,
                                           engineeredData, f))
                               * adjustmentFactor)
                      ELSE mlBridge.featureImportance[f]]_vars

\* C26: a learnFromTrade of an enabled scorer runs train() exactly when it
\* brings the number of learning events to a positive multiple of 50,
\* with or without a prediction record on the trade.
C26_RetrainEvery50th ==
  [][\A trade \in WinningTrades :
        (learnFromTrade(trade) /\ mlBridge.enabled)
          => (mlReturned'.trained
                <=> /\ mlBridge'.totalPredictions > 0
                    /\ mlBridge'.totalPredictions % retrainPeriod = 0)]_vars

tickCompletes ==
  \E k \in {"fresh", "stale"}, p \in Profits, solPrice \in FallbackSolPrices,
     sourceIndex \in 1..3, targetIndex \in 1..3 :
     tickComplete(k, p, solPrice, sourceIndex, targetIndex)

\* C28: the trade of a completed demo tick is pushed on state.trades and
\* applied to the portfolio once, and it is a learning event: it is counted
\* in state.mlStats.predictions and by the MLBridge.
C28_TickTeachesScorer ==
  [][tickCompletes
       => /\ Len(trades') = Len(trades) + 1
          /\ portfolio'.value = portfolio.value + tick'.trade[1].profit
          /\ mlStats'.predictions = mlStats.predictions + 1
          /\ mlBridge'.totalPredictions + mlBridge'.successfulTrades
               + mlBridge'.failedTrades
             > mlBridge.totalPredictions + mlBridge.successfulTrades
               + mlBridge.failedTrades]_vars

\* C29: a demo tick whose price requests left fewer than two tokens with a
\* price creates no trade, and both tokens of a trade that a tick creates
\* carry a price that getTokenPrice returned.
C29_NoInventedPrice ==
  [][tickCompletes
       => /\ Len(tick.tokensWithPrices) < 2
               => trades' = trades /\ tick'.trade = tick.trade
          /\ trades' # trades
               => /\ tick'.trade[1].sourceToken.priceFrom = "getTokenPrice"
                  /\ tick'.trade[1].targetToken.priceFrom = "getTokenPrice"]_vars

\* C30: a POST /api/trading/result with complete trade details is answered
\* with success and adds the trade to state.tradeHistory.
C30_ResultRecorded ==
  [][\A body \in ResultBodies :
        (trading_result(body) /\ ~missingDetails(body))
          => /\ emitted'.success
             /\ tradeHistory' # tradeHistory]_vars

\* ----------------------------------------------------------------------
\* Wallet state store properties
\* ----------------------------------------------------------------------

\* C31: the key of every wallet file is the hash of the address, never the
\* address itself, and a written wallet state has the session fields only:
\* no walletAddress field, and no logged trade carrying one.
C31_IdentityNotStored ==
  \A h \in DOMAIN walletFiles :
    /\ walletFiles[h].exists
         => h \notin Wallets /\ \E w \in Wallets : h = walletHash(w)
    /\ (walletFiles[h].exists /\ walletFiles[h].parses)
         => /\ DOMAIN walletFiles[h].data = SnapshotFields
            /\ \A i \in 1..Len(walletFiles[h].data.trades) :
                 "walletAddress" \notin DOMAIN walletFiles[h].data.trades[i]

\* A session with a logged trade was saved for wallet "abc".
C31_Witness ==
  /\ walletFiles[walletHash("abc")].exists
  /\ walletFiles[walletHash("abc")].parses
  /\ Len(walletFiles[walletHash("abc")].data.trades) > 0
  /\ saveResult = "saved"


\* C32: after a live start that loaded a wallet state file, every session
\* field is defined, also the ones the file does not have.
C32_AbsentFieldsDefaulted ==
  restored.op = "start_trading"
    => \A f \in SnapshotFields : restored.state[f] # <<>>


\* ----------------------------------------------------------------------
\* Client command properties
\* ----------------------------------------------------------------------

\* C33: a trade_executed result for an id that no logged trade has, or for
\* a logged trade whose status is not 'prepared', changes neither the
\* portfolio, the profit lock, state.mlStats, the MLBridge nor any trade.
C33_ResultForPreparedOnly ==
  [][\A s \in Sockets, tradeId \in ResultIds, success \in BOOLEAN :
        (/\ trade_executed(s, tradeId, success)
         /\ \/ tradeId \notin 1..Len(trades)
            \/ trades[tradeId].status # "prepared")
          => /\ portfolio' = portfolio
             /\ profitLock' = profitLock
             /\ mlStats' = mlStats
             /\ mlBridge' = mlBridge
             /\ trades' = trades]_vars

\* A result came in for a logged trade that is 'completed', in a session
\* with a trade logged and ML enabled.
C33_Witness ==
  /\ lastOp.name = "trade_executed"
  /\ lastOp.tradeId \in 1..Len(trades)
  /\ trades[lastOp.tradeId].status = "completed"
  /\ portfolio.totalPnL # 0
  /\ mlEnabled

\* C38: state.mlEnabled and the enabled flag of the MLBridge agree.
C38_FlagsAgree == mlEnabled = mlBridge.enabled


\* ----------------------------------------------------------------------
\* Interval timer and ledger properties
\* ----------------------------------------------------------------------

\* C34: at most one trade-generation interval is active, and none is
\* active after a stop_trading.
C34_OneTimer ==
  /\ Cardinality(timers) <= 1
  /\ lastOp.name = "stop_trading" => timers = {}


\* A trading session with a tick in flight was stopped.
C34_Witness ==
  /\ lastOp.name = "stop_trading"
  /\ ~tradingControl.isRunning
  /\ inflight.stale > 0
  /\ timers = {}


\* C35: the balance sent to the viewers is the starting balance plus
\* totalPnL plus what was withdrawn from the profit lock.
C35_OneBalance ==
  sentBalance = StartingBalance + portfolio.totalPnL + totalWithdrawn


\* The sum of the profit of the trades of a log
RECURSIVE profitSum(_)
profitSum(log) ==
  IF log = <<>> THEN 0 ELSE Head(log).profit + profitSum(Tail(log))

\* C36: in a demo session state.portfolio.totalPnL is the sum of the profit
\* of the trades in state.trades.
C36_PnLIsLogSum == portfolio.totalPnL = profitSum(trades)

\* A running demo session whose log holds one losing trade, with no tick
\* in flight.
C36_Witness ==
  /\ tradingControl.isRunning
  /\ tradingControl.mode = "demo"
  /\ lastOp.name = "tick_trade"
  /\ Len(trades) = 1
  /\ inflight.fresh = 0
  /\ portfolio.totalPnL = 0 - 300


\* C37: a configure request that is answered 400 leaves state.profitLock
\* as it was.
C37_RejectedConfigureChangesNothing ==
  [][\A percentage \in {<<>>} \cup {<<x>> : x \in Percentages},
        enabled \in EnabledInputs :
        (configure(percentage, enabled) /\ emitted'.event = "400")
          => profitLock' = profitLock]_vars


\* ----------------------------------------------------------------------
\* TradeExecutor and WalletManager properties
\* ----------------------------------------------------------------------

\* C39: at most one processTradingJobs loop is scheduled, and no job has
\* more trades than its maxTrades.
C39_OneLoop ==
  /\ tradeExecutor.timeouts <= 1
  /\ tradeExecutor.tradingJobs # <<>>
       => tradeExecutor.tradingJobs[1].trades
            <= tradeExecutor.tradingJobs[1].maxTrades


\* C40: the available balance of the user is never negative.
C40_AvailableNeverNegative ==
  walletManager.userBalances # <<>>
    => walletManager.userBalances[1].available >= 0


====
